---- MODULE Spec2Model ----
(***************************************************************************)
(* The ingestion path (src/src/lib/ingester.ts, src/src/lib/storage.ts,    *)
(* the HTTP batch route) and the cleanup cron (src/src/cron/cleanup.ts) of *)
(* the log service, over a relational metadata store (D1, table logs) and  *)
(* an archive store (R2).                                                  *)
(*                                                                         *)
(* Strings the code inspects character by character (service names,       *)
(* levels) are sequences of one-character strings.  Messages are run      *)
(* length encoded, <<[ch |-> c, n |-> k], ...>>, so that messages of 1000  *)
(* and of 10000 characters stay small; length, trim and substring are     *)
(* computed on that encoding.                                              *)
(***************************************************************************)
EXTENDS Integers, Sequences, FiniteSets, TLC

VARIABLES
    now,         \* Date.now(), epoch milliseconds
    logs,        \* D1 table logs: a set of rows
    r2,          \* R2 bucket LOGS_ARCHIVE: a function key -> stored object
    bg,          \* ctx.waitUntil tasks of ingestLog still running
    uuids,       \* number of ids crypto.randomUUID() has handed out
    calls,       \* number of requests served (ingest, batch, cleanup runs)
    ret,         \* outcome of the latest ingestLog call
    archiveLog,  \* history: what each finished archive task did
    batch,       \* the batchIngestLogs call in flight, or NoBatch
    batchRet,    \* outcome of the latest POST /ingest/batch request
    cl,          \* the cleanupCron run: its position and locals
    input,       \* SpecInput: the record under test
    level,       \* SpecLevel: the string under test
    normalized,  \* SpecLevel: normalizeLogLevel(level), once computed
    aq,          \* the analysis queue, table analysis_queue and the queue consumer
    agent,       \* the AnalysisAgent durable object of one session
    wf           \* runAnalysisWorkflow: the run in progress and its result

vars == <<now, logs, r2, bg, uuids, calls, ret, archiveLog, batch, batchRet,
          cl, input, level, normalized, aq, agent, wf>>

---------------------------------------------------------------------------
(* Characters and strings *)

LowerCase == <<"a","b","c","d","e","f","g","h","i","j","k","l","m",
               "n","o","p","q","r","s","t","u","v","w","x","y","z">>
UpperCase == <<"A","B","C","D","E","F","G","H","I","J","K","L","M",
               "N","O","P","Q","R","S","T","U","V","W","X","Y","Z">>
Digits == {"0","1","2","3","4","5","6","7","8","9"}
WhiteSpace == {" ", "\t", "\n"}

Range(s) == {s[i] : i \in DOMAIN s}

\* String.prototype.toUpperCase, one character
toUpperCaseChar(c) ==
    IF \E i \in DOMAIN LowerCase : LowerCase[i] = c
    THEN UpperCase[CHOOSE i \in DOMAIN LowerCase : LowerCase[i] = c]
    ELSE c

\* String.prototype.toUpperCase
toUpperCase(s) == [i \in 1..Len(s) |-> toUpperCaseChar(s[i])]

toLowerCaseChar(c) ==
    IF \E i \in DOMAIN UpperCase : UpperCase[i] = c
    THEN LowerCase[CHOOSE i \in DOMAIN UpperCase : UpperCase[i] = c]
    ELSE c

\* a level that is undefined (the field is missing from the submission)
Undefined == <<"undefined">>

DEBUG == <<"D","E","B","U","G">>
INFO == <<"I","N","F","O">>
WARN == <<"W","A","R","N">>
WARNING == <<"W","A","R","N","I","N","G">>
ERROR == <<"E","R","R","O","R">>
CRITICAL == <<"C","R","I","T","I","C","A","L">>
FATAL == <<"F","A","T","A","L">>
TRACE == <<"T","R","A","C","E">>

\* normalizeLogLevel without the upper-casing: what a missing toUpperCase does
normalizeLogLevel_NoUpper(lvl) ==
    CASE lvl = WARNING -> WARN
      [] lvl = FATAL -> CRITICAL
      [] lvl = TRACE -> DEBUG
      [] OTHER -> lvl

\* normalizeLogLevel with the TRACE entry of levelMap left out
normalizeLogLevel_NoTrace(lvl) ==
    LET n == toUpperCase(lvl)
    IN  CASE n = WARNING -> WARN
          [] n = FATAL -> CRITICAL
          [] OTHER -> n

\* normalizeLogLevel: levelMap[normalized] || normalized
normalizeLogLevel(lvl) ==
    LET normalized_ == toUpperCase(lvl)
    IN  CASE normalized_ = WARNING -> WARN
          [] normalized_ = FATAL -> CRITICAL
          [] normalized_ = TRACE -> DEBUG
          [] OTHER -> normalized_

---------------------------------------------------------------------------
(* Run-length encoded messages *)

RECURSIVE StrLen(_)
\* String.prototype.length
StrLen(m) == IF m = <<>> THEN 0 ELSE Head(m).n + StrLen(Tail(m))

RECURSIVE substring0(_, _)
\* String.prototype.substring(0, k)
substring0(m, k) ==
    IF m = <<>> \/ k <= 0 THEN <<>>
    ELSE IF Head(m).n >= k THEN <<[ch |-> Head(m).ch, n |-> k]>>
    ELSE <<Head(m)>> \o substring0(Tail(m), k - Head(m).n)

\* message.trim() === ''
trimIsEmpty(m) == \A i \in DOMAIN m : m[i].ch \in WhiteSpace

---------------------------------------------------------------------------
(* Program constants and configuration *)

\* storeLogMetadata: log.message.substring(0, 1000)
MessageColumnLength == 1000
\* validateLogEntry: log.message.length > 10000 only warns
LongMessageLength == 10000
\* validateLogEntry: metadataSize > 50000
MaxMetadataSize == 50000
\* POST /ingest/batch: logs.length > 1000
MaxBatchLength == 1000
\* 24 * 60 * 60 * 1000
DayMs == 24 * 60 * 60 * 1000

\* JSON.stringify({}).length, the serialisation of an absent metadata object
EmptyObjectJsonLength == 2

NoId == ""
NoTimestamp == 0
NoMetadata == 0
NoKey == <<>>
NoError == ""
FetchLimit == 1000
ErrorSampleSize == 50
WarningSampleSize == 30

\* service names
SvcA == <<"s","v","c","-","a">>
SvcB == <<"S","v","c","_","2">>
SvcZ == <<"s", "v", "c", "-", "z">>
SvcCleanup == <<"l","o","g","s","S","e","r","v","i","c","e","-",
                "c","l","e","a","n","u","p">>

(* Bounds of the model *)
MaxCalls == 2        \* ingestLog calls per behaviour
MaxRepeats == 2      \* SpecInput: ingestLog calls on the record under test
MaxBatch == 2        \* SpecBatch: records per batch (besides the two big batches)
MaxRequests == 1     \* SpecBatch: batch requests per behaviour
MaxTicks == 1        \* clock steps per behaviour
MaxAnalyses == 2     \* SpecQueue: POST /analyze requests per behaviour
MaxDeliveries == 2   \* SpecQueue: batches delivered to the consumer
MaxQueueBatch == 2   \* SpecQueue: messages per delivered batch
MaxAgentOps == 4     \* SpecAgent: requests to the durable object
MaxWorkflowRuns == 2 \* SpecWorkflow: runs on the same session id
MaxRuns == 2         \* SpecCleanup: cleanup runs per behaviour
MaxExpired == 4      \* SpecCleanup: expired rows of one service in the store
MaxCleanups == 1     \* cleanupCron runs per behaviour
cleanup_batch_size == 2   \* default_config row cleanup_batch_size
default_ttl_days == 3     \* default_config row default_ttl_days
SvcBTtlDays == 1     \* service_configs row of SvcB: ttl_days

\* the clock when the behaviour starts (TLC's integers are 32 bits wide: times
\* are milliseconds counted from a recent origin, not from 1970)
Now0 == 10 * DayMs

---------------------------------------------------------------------------
(* validateLogEntry *)

validLevels == {DEBUG, INFO, WARN, WARNING, ERROR, CRITICAL}

\* /^[a-zA-Z0-9_-]+$/.test(name)
serviceNameRegex(name) ==
    /\ Len(name) >= 1
    /\ \A i \in DOMAIN name :
          name[i] \in Range(LowerCase) \cup Range(UpperCase) \cup Digits \cup {"_", "-"}

\* !s || s.trim() === '' on a plain string
blank(s) == \A i \in DOMAIN s : s[i] \in WhiteSpace

\* JSON.stringify(log.metadata).length; metadata is modelled by that length
JsonLength(metadata) == metadata

\* validateLogEntry with the level check made on the raw level (no toUpperCase)
validateLogEntry_RawLevel(log) ==
    IF blank(log.service_name) THEN "service_name is required"
    ELSE IF log.level = Undefined \/ log.level = <<>> THEN "level is required"
    ELSE IF log.level \notin validLevels THEN "Invalid log level"
    ELSE IF log.message = <<>> \/ trimIsEmpty(log.message) THEN "message is required"
    ELSE IF log.metadata # NoMetadata /\ JsonLength(log.metadata) > MaxMetadataSize
         THEN "Metadata is too large"
    ELSE IF ~serviceNameRegex(log.service_name)
         THEN "service_name must contain only alphanumeric characters, dashes, and underscores"
    ELSE NoError

\* validateLogEntry without the service name pattern check
validateLogEntry_NoRegex(log) ==
    IF blank(log.service_name) THEN "service_name is required"
    ELSE IF log.level = Undefined \/ log.level = <<>> THEN "level is required"
    ELSE IF toUpperCase(log.level) \notin validLevels THEN "Invalid log level"
    ELSE IF log.message = <<>> \/ trimIsEmpty(log.message) THEN "message is required"
    ELSE IF log.metadata # NoMetadata /\ JsonLength(log.metadata) > MaxMetadataSize
         THEN "Metadata is too large"
    ELSE NoError

\* validateLogEntry: the message of the Error it throws, or NoError
validateLogEntry(log) ==
    IF blank(log.service_name) THEN "service_name is required"
    ELSE IF log.level = Undefined \/ log.level = <<>> THEN "level is required"
    ELSE IF toUpperCase(log.level) \notin validLevels THEN "Invalid log level"
    ELSE IF log.message = <<>> \/ trimIsEmpty(log.message) THEN "message is required"
    ELSE IF log.metadata # NoMetadata /\ JsonLength(log.metadata) > MaxMetadataSize
         THEN "Metadata is too large"
    ELSE IF ~serviceNameRegex(log.service_name)
         THEN "service_name must contain only alphanumeric characters, dashes, and underscores"
    ELSE NoError

\* validateLogEntry: whether console.warn is called (the call is reached only
\* when the first four checks pass)
warnsLongMessage(log) ==
    /\ ~blank(log.service_name)
    /\ log.level # Undefined /\ log.level # <<>>
    /\ toUpperCase(log.level) \in validLevels
    /\ ~(log.message = <<>> \/ trimIsEmpty(log.message))
    /\ StrLen(log.message) > LongMessageLength

---------------------------------------------------------------------------
(* storage.ts *)

\* crypto.randomUUID(): the k-th id handed out
randomUUID(k) == "uuid-" \o ToString(k)

\* new Date(timestamp).toISOString().split('T')[0]: the UTC calendar day,
\* modelled by its day number since the epoch
utcDate(timestamp) == timestamp \div DayMs

\* the key dated by the day of the write instead of the day of the record
generateR2Key_Today(log) == <<log.service_name, utcDate(now), log.id>>

\* generateR2Key: logs/{service_name}/{date}/{log_id}.json.gz, as its three
\* variable parts
generateR2Key(log) == <<log.service_name, utcDate(log.timestamp), log.id>>

\* compressData(JSON.stringify(log)): the stored object
compressData(log) == [gzip |-> log]

\* the row storeLogMetadata binds, with the message column left untruncated
rowOf_NoTruncate(log) ==
    [id |-> log.id,
     service_name |-> log.service_name,
     level |-> log.level,
     message |-> log.message,
     timestamp |-> log.timestamp,
     metadata_json |-> IF log.metadata = NoMetadata THEN EmptyObjectJsonLength
                       ELSE JsonLength(log.metadata),
     source_type |-> IF log.source_type = "" THEN "http" ELSE log.source_type,
     r2_key |-> NoKey]

\* the row storeLogMetadata binds
rowOf(log) ==
    [id |-> log.id,
     service_name |-> log.service_name,
     level |-> log.level,
     message |-> substring0(log.message, MessageColumnLength),
     timestamp |-> log.timestamp,
     metadata_json |-> IF log.metadata = NoMetadata THEN EmptyObjectJsonLength
                       ELSE JsonLength(log.metadata),
     source_type |-> IF log.source_type = "" THEN "http" ELSE log.source_type,
     r2_key |-> NoKey]

\* the primary key of table logs: INSERT fails when the id is taken
primaryKeyFree(id) == \A row \in logs : row.id # id

\* UPDATE logs SET r2_key = ? WHERE id = ?
updateLogR2Key(table, logId, r2Key) ==
    {IF row.id = logId THEN [row EXCEPT !.r2_key = r2Key] ELSE row : row \in table}

\* r2.put(key, body)
r2Put(bucket, key, body) ==
    [k \in DOMAIN bucket \cup {key} |-> IF k = key THEN body ELSE bucket[k]]

\* r2.delete(key): deleting a missing object is not an error
r2Delete(bucket, key) == [k \in DOMAIN bucket \ {key} |-> bucket[k]]

---------------------------------------------------------------------------
(* Submissions *)

MsgShort == <<[ch |-> "d", n |-> 1], [ch |-> " ", n |-> 1], [ch |-> "x", n |-> 6]>>
MsgPadded == <<[ch |-> " ", n |-> 2], [ch |-> "x", n |-> 1]>>
MsgBlank == <<[ch |-> " ", n |-> 3]>>
MsgAtColumn == <<[ch |-> "x", n |-> MessageColumnLength]>>
MsgOverColumn == <<[ch |-> "x", n |-> MessageColumnLength], [ch |-> "y", n |-> 1]>>
MsgVeryLong == <<[ch |-> "x", n |-> LongMessageLength], [ch |-> "y", n |-> 1]>>

LogEntry(id, service_name, lvl, message, timestamp, metadata) ==
    [id |-> id, service_name |-> service_name, level |-> lvl, message |-> message,
     timestamp |-> timestamp, metadata |-> metadata, source_type |-> ""]

\* submissions of the pipeline specification: two services, ids given and
\* generated, timestamps given (either side of the two cutoffs) and defaulted
RecAOld == LogEntry("a", SvcA, <<"e","r","r","o","r">>, MsgShort,
                    Now0 - default_ttl_days * DayMs - 1, NoMetadata)
RecAEdge == LogEntry(NoId, SvcA, INFO, MsgOverColumn,
                     Now0 - default_ttl_days * DayMs, NoMetadata)
RecANow == LogEntry(NoId, SvcA, <<"w","a","r","n","i","n","g">>, MsgShort,
                    NoTimestamp, EmptyObjectJsonLength)
RecBOld == LogEntry("a", SvcB, <<"W","a","r","n">>, MsgShort,
                    Now0 - default_ttl_days * DayMs - 1, NoMetadata)
RecBadLevel == LogEntry(NoId, SvcA, FATAL, MsgShort, NoTimestamp, NoMetadata)

Records == {RecAOld, RecAEdge, RecANow, RecBOld, RecBadLevel}

---------------------------------------------------------------------------
(* ingestLog *)

NoRet == [n |-> 0, status |-> "none"]
NoBatch == [pc |-> "none"]
\* an idle consumer over an empty queue and an empty table analysis_queue
NoQueue ==
    [enq |-> {}, pending |-> {}, tracking |-> {}, deliveries |-> 0,
     con |-> [pc |-> "idle", batch |-> <<>>, i |-> 0, wf |-> "none", error |-> NoError,
              before |-> 0, done |-> <<>>],
     att |-> <<>>]

\* a durable object whose storage holds no session
NoState == [exists |-> FALSE]
NoAgent ==
    [storage |-> NoState, sessions |-> {}, ops |-> 0,
     lastStart |-> "never", params |-> NoState, terminal |-> FALSE,
     request |-> [op |-> "none", arg |-> NoState, fault |-> FALSE],
     response |-> [op |-> "none", status |-> 0, body |-> NoState]]

\* absent fields of a session (undefined) and NULL columns of its row
NoCount == -1
NoSummary == "undefined"
NoStep == "undefined"
NoList == <<"undefined">>

\* no workflow run in progress; sent is the history of the run's calls to the
\* durable object, in the order they were made
NoWorkflow ==
    [pc |-> "idle", runs |-> 0, params |-> NoState, fetched |-> FALSE, logs |-> {},
     counts |-> [error_count |-> 0, warning_count |-> 0, info_count |-> 0],
     ai |-> [kind |-> "none"], analysis |-> NoState, error |-> NoError,
     raisedAt |-> "none", completeCall |-> 0, failCall |-> "none",
     outcome |-> "none", result |-> NoState, sent |-> <<>>]

NoBatchRet == [n |-> 0, status |-> "none"]

\* ingestLog lines 17-30: id and timestamp defaulting, validation, and the
\* entry prepared for the stores; k ids have been generated before
prepare(log, k) ==
    LET id == IF log.id # NoId THEN log.id ELSE randomUUID(k + 1)
        timestamp == IF log.timestamp # NoTimestamp THEN log.timestamp ELSE now
    IN  [error |-> validateLogEntry(log),
         logEntry |-> [log EXCEPT !.id = id, !.timestamp = timestamp,
                                  !.level = IF log.level = Undefined THEN Undefined
                                            ELSE toUpperCase(log.level)]]

\* ids consumed by prepare
uuidsUsed(log) == IF log.id = NoId THEN 1 ELSE 0

\* storeLogMetadata returning although the INSERT failed (the error swallowed)
storeLogMetadata_Swallow(table, log, fault) ==
    IF fault \/ \E row \in table : row.id = log.id
    THEN [error |-> NoError, table |-> table]
    ELSE [error |-> NoError, table |-> table \cup {rowOf(log)}]

\* storeLogMetadata written as INSERT OR REPLACE: a row of the same id gives way
storeLogMetadata_Replace(table, log, fault) ==
    IF fault THEN [error |-> "D1_ERROR", table |-> table]
    ELSE [error |-> NoError,
          table |-> {row \in table : row.id # log.id} \cup {rowOf(log)}]

\* storeLogMetadata: the INSERT; fault is a failure of the store
storeLogMetadata(table, log, fault) ==
    IF fault THEN [error |-> "D1_ERROR", table |-> table]
    ELSE IF \E row \in table : row.id = log.id
         THEN [error |-> "UNIQUE constraint failed: logs.id", table |-> table]
    ELSE [error |-> NoError, table |-> table \cup {rowOf(log)}]

\* ctx.waitUntil(...): the detached archive task of one ingested entry
archiveTask(task, logEntry) == [task |-> task, log |-> logEntry, pc |-> "put"]

\* one ingestLog call, from entry to return; the archive task is left running
IngestLog(log) ==
    /\ calls' = calls + 1
    /\ uuids' = uuids + uuidsUsed(log)
    /\ LET p == prepare(log, uuids)
       IN  IF p.error # NoError
           THEN /\ ret' = [n |-> calls + 1, at |-> now, status |-> "rejected",
                           error |-> p.error, id |-> NoId]
                /\ UNCHANGED <<logs, bg>>
           ELSE \E fault \in BOOLEAN :
                  LET ins == storeLogMetadata(logs, p.logEntry, fault)
                  IN  /\ logs' = ins.table
                      /\ IF ins.error # NoError
                         THEN /\ ret' = [n |-> calls + 1, at |-> now,
                                         status |-> "rejected", error |-> ins.error,
                                         id |-> NoId]
                              /\ bg' = bg
                         ELSE /\ ret' = [n |-> calls + 1, at |-> now,
                                         status |-> "fulfilled", error |-> NoError,
                                         id |-> p.logEntry.id]
                              /\ bg' = bg \cup {archiveTask(<<calls + 1, 1>>, p.logEntry)}
    /\ UNCHANGED <<wf, aq, agent, now, r2, archiveLog, batch, batchRet, cl, input, level, normalized>>

\* the catch block re-running the task it belongs to
afterPutFailure_Retry(tasks, t) == tasks

\* catch (error) { console.error(...) }: the failed task ends, nothing is retried
afterPutFailure(tasks, t) == tasks \ {t}

\* the archive task up to its first store call: storeLogInR2 (key, compress,
\* r2.put); a failure is caught and logged, and the task ends
ArchivePut(t) ==
    /\ t \in bg /\ t.pc = "put"
    /\ \E fault \in BOOLEAN :
         IF fault
         THEN /\ bg' = afterPutFailure(bg, t)
              /\ archiveLog' = archiveLog \cup
                    {[task |-> t.task, id |-> t.log.id, key |-> generateR2Key(t.log),
                      put |-> "failed", update |-> "none"]}
              /\ r2' = r2
         ELSE /\ r2' = r2Put(r2, generateR2Key(t.log), compressData(t.log))
              /\ bg' = (bg \ {t}) \cup {[t EXCEPT !.pc = "update"]}
              /\ archiveLog' = archiveLog
    /\ UNCHANGED <<wf, aq, agent, now, logs, uuids, calls, ret, batch, batchRet, cl,
                   input, level, normalized>>

\* the archive task after r2.put: updateLogR2Key, failure caught and logged
ArchiveUpdate(t) ==
    /\ t \in bg /\ t.pc = "update"
    /\ bg' = bg \ {t}
    /\ \E fault \in BOOLEAN :
         /\ logs' = IF fault THEN logs
                    ELSE updateLogR2Key(logs, t.log.id, generateR2Key(t.log))
         /\ archiveLog' = archiveLog \cup
               {[task |-> t.task, id |-> t.log.id, key |-> generateR2Key(t.log),
                 put |-> "ok", update |-> IF fault THEN "failed" ELSE "ok"]}
    /\ UNCHANGED <<wf, aq, agent, now, r2, uuids, calls, ret, batch, batchRet, cl,
                   input, level, normalized>>

\* the clock advances
Tick ==
    /\ now < Now0 + MaxTicks
    /\ now' = now + 1
    /\ UNCHANGED <<wf, aq, agent, logs, r2, bg, uuids, calls, ret, archiveLog, batch, batchRet,
                   cl, input, level, normalized>>

---------------------------------------------------------------------------
(* cleanupCron *)

\* table service_configs
service_configs ==
    {[service_name |-> SvcB, ttl_days |-> SvcBTtlDays],
     [service_name |-> SvcZ, ttl_days |-> 0]}

\* the values of cleanup_batch_size in table default_config
BatchSizes == 1..cleanup_batch_size

\* serviceTTLs.get(serviceName) || defaultTTLDays
ttlDaysOf(serviceName) ==
    IF \E c \in service_configs : c.service_name = serviceName /\ c.ttl_days # 0
    THEN (CHOOSE c \in service_configs : c.service_name = serviceName).ttl_days
    ELSE default_ttl_days

\* SELECT DISTINCT service_name FROM logs
distinctServices(table) == {row.service_name : row \in table}

\* the orders in which a query without ORDER BY may return a set
Orders(S) ==
    {q \in [1..Cardinality(S) -> S] : \A i, j \in 1..Cardinality(S) : i # j => q[i] # q[j]}

\* getLogsForCleanup selecting on the timestamp alone (no service filter)
eligible_AnyService(table, serviceName, cutoffTime) ==
    {row \in table : row.timestamp < cutoffTime}

\* getLogsForCleanup selecting timestamp <= cutoff
eligible_Inclusive(table, serviceName, cutoffTime) ==
    {row \in table : row.service_name = serviceName /\ row.timestamp <= cutoffTime}

\* WHERE service_name = ? AND timestamp < ?
eligible(table, serviceName, cutoffTime) ==
    {row \in table : row.service_name = serviceName /\ row.timestamp < cutoffTime}

\* getLogsForCleanup: the possible results of
\* SELECT id, r2_key ... ORDER BY timestamp ASC LIMIT ? (ties in any order)
getLogsForCleanup(table, serviceName, cutoffTime, limit) ==
    LET E == eligible(table, serviceName, cutoffTime)
        n == IF Cardinality(E) < limit THEN Cardinality(E) ELSE limit
        picks == {q \in [1..n -> E] :
                    /\ \A i, j \in 1..n : i # j => q[i] # q[j]
                    /\ \A i, j \in 1..n : i < j => q[i].timestamp <= q[j].timestamp
                    /\ \A row \in E \ {q[i] : i \in 1..n} :
                          \A i \in 1..n : q[i].timestamp <= row.timestamp}
    IN  {[i \in 1..n |-> [id |-> q[i].id, r2_key |-> q[i].r2_key]] : q \in picks}

\* deleteLogsMetadata: DELETE FROM logs WHERE id IN (...)
deleteLogsMetadata(table, logIds) == {row \in table : row.id \notin logIds}

MsgSummary == <<[ch |-> "C", n |-> 1]>>

\* the summary row stamped with the epoch instead of the present
summaryRow_Epoch(id) ==
    [id |-> id, service_name |-> SvcCleanup, level |-> INFO, message |-> MsgSummary,
     timestamp |-> 1, metadata_json |-> EmptyObjectJsonLength,
     source_type |-> "agent", r2_key |-> NoKey]

\* the row logCleanupSummary inserts
summaryRow(id) ==
    [id |-> id, service_name |-> SvcCleanup, level |-> INFO, message |-> MsgSummary,
     timestamp |-> now, metadata_json |-> EmptyObjectJsonLength,
     source_type |-> "agent", r2_key |-> NoKey]

\* logCleanupSummary: the INSERT inside try/catch
storeSummary(table, id, fault) ==
    IF fault \/ \E row \in table : row.id = id THEN table
    ELSE table \cup {summaryRow(id)}

\* a cleanup run: its position, its locals, and a history of the run (the
\* cutoffs it computed, the archive deletes of the batch that failed, the
\* outcome of the run before it) and of all runs (the archive keys of the
\* records whose rows were deleted, whether an archive delete ever failed)
NoCleanup ==
    [pc |-> "idle", run |-> 0, outcome |-> "none", services |-> <<>>,
     serviceName |-> <<>>, cutoffTime |-> 0, logsToDelete |-> <<>>,
     r2Pending |-> {}, totalDeleted |-> 0,
     batchSize |-> 0, cutoffs |-> {}, r2Failed |-> {}, prev |-> "none",
     removed |-> {}, r2Errors |-> FALSE]

\* the cron run ends by throwing: catch (error) { ...; throw error }
cleanupThrows == [cl EXCEPT !.pc = "idle", !.outcome = "failed"]

\* lines 14-40: the configuration and the list of services are read
CleanupStart ==
    /\ cl.pc = "idle"
    /\ \E fault \in BOOLEAN :
         IF fault
         THEN cl' = [NoCleanup EXCEPT !.run = cl.run + 1, !.outcome = "failed",
                                      !.prev = cl.outcome, !.removed = cl.removed,
                                      !.r2Errors = cl.r2Errors]
         ELSE \E order \in Orders(distinctServices(logs)), size \in BatchSizes :
                cl' = [NoCleanup EXCEPT !.pc = "service", !.run = cl.run + 1,
                                        !.outcome = "running", !.services = order,
                                        !.batchSize = size, !.prev = cl.outcome,
                                        !.removed = cl.removed,
                                        !.r2Errors = cl.r2Errors]
    /\ UNCHANGED <<wf, aq, agent, now, logs, r2, bg, uuids, calls, ret, archiveLog, batch, batchRet,
                   input, level, normalized>>

\* lines 43-48: the next service of the for loop, its TTL and cutoff
CleanupService ==
    /\ cl.pc = "service"
    /\ IF cl.services = <<>>
       THEN cl' = [cl EXCEPT !.pc = "summary"]
       ELSE cl' = [cl EXCEPT !.pc = "fetch",
                             !.serviceName = Head(cl.services),
                             !.services = Tail(cl.services),
                             !.cutoffTime = now - ttlDaysOf(Head(cl.services)) * DayMs,
                             !.cutoffs = @ \cup
                                 {[service_name |-> Head(cl.services),
                                   ttlDays |-> ttlDaysOf(Head(cl.services)),
                                   cutoffTime |-> now - ttlDaysOf(Head(cl.services)) * DayMs]}]
    /\ UNCHANGED <<wf, aq, agent, now, logs, r2, bg, uuids, calls, ret, archiveLog, batch, batchRet,
                   input, level, normalized>>

\* lines 52-76: one batch is fetched; empty ends the service, otherwise the
\* archive deletes of its rows that carry a key are issued
CleanupFetch ==
    /\ cl.pc = "fetch"
    /\ \E fault \in BOOLEAN :
         IF fault
         THEN cl' = cleanupThrows
         ELSE \E sel \in getLogsForCleanup(logs, cl.serviceName, cl.cutoffTime,
                                            cl.batchSize) :
                IF Len(sel) = 0
                THEN cl' = [cl EXCEPT !.pc = "service", !.logsToDelete = <<>>,
                                      !.r2Failed = {}]
                ELSE cl' = [cl EXCEPT !.pc = "r2delete", !.logsToDelete = sel,
                              !.r2Failed = {},
                              !.r2Pending = {i \in 1..Len(sel) : sel[i].r2_key # NoKey}]
    /\ UNCHANGED <<wf, aq, agent, now, logs, r2, bg, uuids, calls, ret, archiveLog, batch, batchRet,
                   input, level, normalized>>

\* a failed deleteLogFromR2 rethrown instead of caught: the run ends
afterR2DeleteFailure_Throw(c, i) == [c EXCEPT !.pc = "idle", !.outcome = "failed"]

\* lines 73-75: .catch((err) => console.error(...)): the deletion settles
afterR2DeleteFailure(c, i) ==
    [c EXCEPT !.r2Pending = @ \ {i}, !.r2Failed = @ \cup {i}, !.r2Errors = TRUE]

\* lines 71-75: one deleteLogFromR2 completes; its failure is caught and logged
CleanupR2Delete(i) ==
    /\ cl.pc = "r2delete" /\ i \in cl.r2Pending
    /\ \E fault \in BOOLEAN :
         IF fault
         THEN cl' = afterR2DeleteFailure(cl, i) /\ r2' = r2
         ELSE /\ cl' = [cl EXCEPT !.r2Pending = @ \ {i}]
              /\ r2' = r2Delete(r2, cl.logsToDelete[i].r2_key)
    /\ UNCHANGED <<wf, aq, agent, now, logs, bg, uuids, calls, ret, archiveLog, batch, batchRet,
                   input, level, normalized>>

\* the while loop left after the first batch whatever its size
hasMore_Never(fetched, batchSize) == FALSE

\* lines 87-90: if (logsToDelete.length < batchSize) hasMore = false
hasMore(fetched, batchSize) == ~(fetched < batchSize)

\* lines 78-90: all archive deletes settled; the batch's rows are deleted and
\* the loop goes on when the batch was full
CleanupD1Delete ==
    /\ cl.pc = "r2delete" /\ cl.r2Pending = {}
    /\ \E fault \in BOOLEAN :
         IF fault
         THEN cl' = cleanupThrows /\ logs' = logs
         ELSE /\ logs' = deleteLogsMetadata(logs,
                            {cl.logsToDelete[i].id : i \in 1..Len(cl.logsToDelete)})
              /\ cl' = [cl EXCEPT
                          !.totalDeleted = @ + Len(cl.logsToDelete),
                          !.removed = @ \cup
                              {generateR2Key(row) : row \in logs \
                                  deleteLogsMetadata(logs,
                                     {cl.logsToDelete[i].id : i \in 1..Len(cl.logsToDelete)})},
                          !.pc = IF hasMore(Len(cl.logsToDelete), cl.batchSize)
                                 THEN "fetch" ELSE "service"]
    /\ UNCHANGED <<wf, aq, agent, now, r2, bg, uuids, calls, ret, archiveLog, batch, batchRet,
                   input, level, normalized>>

\* lines 98-101 and logCleanupSummary: the summary row; its failure is caught
CleanupSummary ==
    /\ cl.pc = "summary"
    /\ cl' = [cl EXCEPT !.pc = "idle", !.outcome = "completed"]
    /\ uuids' = uuids + 1
    /\ \E fault \in BOOLEAN :
         logs' = storeSummary(logs, randomUUID(uuids + 1), fault)
    /\ UNCHANGED <<wf, aq, agent, now, r2, bg, calls, ret, archiveLog, batch, batchRet,
                   input, level, normalized>>

---------------------------------------------------------------------------
(* The pipeline: ingestion, detached archive writes, cleanup, the clock *)

Init ==
    /\ now = Now0
    /\ logs = {}
    /\ r2 = <<>>
    /\ bg = {}
    /\ uuids = 0
    /\ calls = 0
    /\ ret = NoRet
    /\ archiveLog = {}
    /\ batch = NoBatch
    /\ batchRet = NoBatchRet
    /\ cl = NoCleanup
    /\ input = RecANow
    /\ level = <<>>
    /\ normalized = Undefined
    /\ aq = NoQueue
    /\ agent = NoAgent
    /\ wf = NoWorkflow

Ingest == calls < MaxCalls /\ \E log \in Records : IngestLog(log)

Archive == \E t \in bg : ArchivePut(t) \/ ArchiveUpdate(t)

\* the steps of a run that has started
CleanupRunning ==
    \/ CleanupService
    \/ CleanupFetch
    \/ \E i \in cl.r2Pending : CleanupR2Delete(i)
    \/ CleanupD1Delete
    \/ CleanupSummary

Cleanup ==
    \/ cl.run < MaxCleanups /\ CleanupStart
    \/ CleanupRunning

Next == Ingest \/ Archive \/ Cleanup \/ Tick

Spec == Init /\ [][Next]_vars

---------------------------------------------------------------------------
(* One submission, drawn from a wide set, ingested repeatedly *)

InputIds == {NoId, "a"}
InputServices == {SvcA, SvcB, <<>>, <<" ", " ">>, <<"s","v","c"," ","a">>, <<"a",".","b">>}
InputLevels ==
    {<<"i","n","f","o">>, DEBUG, <<"E","r","r","o","r">>, WARN, CRITICAL,
     <<"W","a","r","n","i","n","g">>, WARNING, FATAL, <<"f","a","t","a","l">>,
     <<"t","r","a","c","e">>, <<"b","o","g","u","s">>, <<>>, Undefined}
InputMessages == {<<>>, MsgBlank, MsgShort, MsgPadded, MsgAtColumn, MsgOverColumn, MsgVeryLong}
InputTimestamps == {NoTimestamp, Now0 - 5}
InputMetadata == {NoMetadata, EmptyObjectJsonLength, MaxMetadataSize, MaxMetadataSize + 1}

AllInputs ==
    {LogEntry(id, svc, lvl, msg, ts, md) :
        id \in InputIds, svc \in InputServices, lvl \in InputLevels,
        msg \in InputMessages, ts \in InputTimestamps, md \in InputMetadata}

InitInput ==
    /\ now = Now0
    /\ logs = {}
    /\ r2 = <<>>
    /\ bg = {}
    /\ uuids = 0
    /\ calls = 0
    /\ ret = NoRet
    /\ archiveLog = {}
    /\ batch = NoBatch
    /\ batchRet = NoBatchRet
    /\ cl = NoCleanup
    /\ input \in AllInputs
    /\ level = <<>>
    /\ normalized = Undefined
    /\ aq = NoQueue
    /\ agent = NoAgent
    /\ wf = NoWorkflow

IngestInput == calls < MaxRepeats /\ IngestLog(input)

NextInput == IngestInput \/ Archive \/ Tick

SpecInput == InitInput /\ [][NextInput]_vars

---------------------------------------------------------------------------
(* Claims about ingestLog, checked under SpecInput *)

RECURSIVE CharAt(_, _)
\* the i-th character (from 1) of a run-length encoded message
CharAt(m, i) == IF i <= Head(m).n THEN Head(m).ch ELSE CharAt(Tail(m), i - Head(m).n)

\* p consists of the first k characters of m (all of m when m is shorter)
IsFirstChars(p, m, k) ==
    /\ StrLen(p) = (IF StrLen(m) < k THEN StrLen(m) ELSE k)
    /\ \A i \in 1..StrLen(p) : CharAt(p, i) = CharAt(m, i)

\* the timestamp of the record under test after defaulting, for a call made at time at
DefaultedTimestamp(at) == IF input.timestamp # NoTimestamp THEN input.timestamp ELSE at

\* an ingestLog call returns in this step
Returns == ret'.n # ret.n

\* C1 as stated: at the moment ingest returns id X, the metadata store holds a
\* row with id X whose service name, level and timestamp (after defaulting)
\* equal the record's and whose message is the first 1000 characters of the
\* record's message.
C1_AsStated ==
    [][(Returns /\ ret'.status = "fulfilled") =>
         \E row \in logs' :
            /\ row.id = ret'.id
            /\ row.service_name = input.service_name
            /\ row.level = input.level
            /\ row.timestamp = DefaultedTimestamp(ret'.at)
            /\ IsFirstChars(row.message, input.message, MessageColumnLength)]_vars

\* C1 amended: the same, with the row's level equal to the record's level
\* converted to upper case (and the id equal to the record's id when it has one).
C1_RowAtReturn ==
    [][(Returns /\ ret'.status = "fulfilled") =>
         /\ (input.id # NoId => ret'.id = input.id)
         /\ \E row \in logs' :
               /\ row.id = ret'.id
               /\ row.service_name = input.service_name
               /\ row.level = toUpperCase(input.level)
               /\ row.timestamp = DefaultedTimestamp(ret'.at)
               /\ IsFirstChars(row.message, input.message, MessageColumnLength)]_vars

\* an accepted record with a lower-case level, a message over 1000 characters
\* and a defaulted timestamp has its (truncated) row
C1_Witness ==
    /\ ret.status = "fulfilled"
    /\ input.level = <<"i","n","f","o">>
    /\ input.message = MsgOverColumn
    /\ input.timestamp = NoTimestamp
    /\ ret.at > Now0
    /\ \E row \in logs : row.id = ret.id /\ row.message = MsgAtColumn /\ row.timestamp = ret.at

\* C2: when the archive put of an ingested record raised, the ingest call had
\* returned the id, the metadata row exists, its archive reference is null and
\* stays null (the task is over: nothing retries it), and no error reached the caller.
C2_ArchiveFailureAbsorbed ==
    \A e \in archiveLog :
       e.put = "failed" =>
          /\ \E row \in logs : row.id = e.id /\ row.r2_key = NoKey
          /\ \A t \in bg : t.task # e.task
          /\ e.update = "none"
          /\ (ret.n = e.task[1] => ret.status = "fulfilled" /\ ret.id = e.id
                                    /\ ret.error = NoError)

\* the archive put failed, every task is over, and the row is there without a key
C2_Witness ==
    /\ bg = {}
    /\ \E e \in archiveLog :
          /\ e.put = "failed"
          /\ ret.n = e.task[1] /\ ret.status = "fulfilled"
          /\ \E row \in logs : row.id = e.id /\ row.r2_key = NoKey
          /\ e.key \notin DOMAIN r2

\* C3: a call whose insert did not add a row fails (rejected, no id) and starts
\* no archive task and no archive write; an archive task is created only in the
\* step that inserts its row, and an archive object is written only by a task
\* whose row is in the metadata store.
C3_InsertBeforeArchive ==
    [][/\ (Returns /\ logs' = logs) =>
             ret'.status = "rejected" /\ ret'.id = NoId /\ bg' = bg /\ r2' = r2
       /\ \A t \in bg' \ bg :
             t.pc = "put" => \E row \in logs' \ logs : row.id = t.log.id
       /\ \A k \in DOMAIN r2' :
             (k \notin DOMAIN r2) =>
                \E t \in bg : /\ t.pc = "put" /\ generateR2Key(t.log) = k
                              /\ \E row \in logs : row.id = t.log.id]_vars

\* the store failed on the insert: the call was rejected with the store's error
\* and nothing was written or started
C3_Witness ==
    /\ ret.status = "rejected" /\ ret.error = "D1_ERROR" /\ ret.id = NoId
    /\ logs = {} /\ bg = {} /\ r2 = <<>>

ValidationErrors ==
    {"service_name is required", "level is required", "Invalid log level",
     "message is required", "Metadata is too large",
     "service_name must contain only alphanumeric characters, dashes, and underscores"}

NameChars == Range(LowerCase) \cup Range(UpperCase) \cup Digits \cup {"_", "-"}

CanonicalLevels == {DEBUG, INFO, WARN, ERROR, CRITICAL}

\* the level names the specification recognizes, in upper case
RecognizedLevels == CanonicalLevels \cup {WARNING, FATAL, TRACE}

\* the record under test is invalid in one of the ways the validator's contract lists
InvalidAsListed ==
    \/ input.service_name = <<>>
    \/ \E i \in DOMAIN input.service_name : input.service_name[i] \notin NameChars
    \/ input.level = Undefined \/ input.level = <<>>
    \/ toUpperCase(input.level) \notin RecognizedLevels
    \/ input.message = <<>>
    \/ input.metadata > MaxMetadataSize

\* C4: a record that is invalid in one of the listed ways is never accepted:
\* every call on it is rejected with a validation error and neither store is
\* written; and a record that is accepted with a short message is not rejected
\* by the validator for having a message of more than 10,000 characters.
C4_ValidationRejects ==
    /\ InvalidAsListed =>
          /\ ret.status # "fulfilled"
          /\ (ret.status = "rejected" => ret.error \in ValidationErrors)
          /\ logs = {} /\ r2 = <<>> /\ bg = {} /\ archiveLog = {}
    /\ (/\ StrLen(input.message) > LongMessageLength
        /\ validateLogEntry([input EXCEPT !.message = MsgShort]) = NoError
        /\ ret.status = "rejected") => ret.error \notin ValidationErrors

\* a record with a bad service name was rejected by the validator and nothing
\* was written
C4_Witness ==
    /\ input.service_name = <<"s","v","c"," ","a">>
    /\ input.level = DEBUG /\ input.message = MsgShort /\ input.metadata = NoMetadata
    /\ ret.status = "rejected" /\ ret.error \in ValidationErrors
    /\ logs = {} /\ r2 = <<>>

\* a valid record with a message of 10,001 characters was accepted
C4_WitnessLong ==
    /\ input.message = MsgVeryLong /\ warnsLongMessage(input)
    /\ ret.status = "fulfilled"

\* C8 as stated: a record whose level is WARNING, FATAL or TRACE in any letter
\* case is not rejected for its level, and every row in the metadata store
\* carries one of the five canonical levels.
C8_AsStated ==
    /\ (toUpperCase(input.level) \in {WARNING, FATAL, TRACE} /\ ret.status = "rejected")
          => ret.error # "Invalid log level"
    /\ \A row \in logs : row.level \in CanonicalLevels

---------------------------------------------------------------------------
(* normalizeLogLevel on its own *)

\* every spelling of the word w in upper and lower case letters
CaseVariants(w) ==
    {[i \in 1..Len(w) |-> IF i \in S THEN toLowerCaseChar(w[i]) ELSE w[i]] :
        S \in SUBSET (1..Len(w))}

LevelInputs ==
    UNION {CaseVariants(w) : w \in {DEBUG, INFO, WARN, WARNING, ERROR, CRITICAL, FATAL, TRACE}}
    \cup {<<>>, <<"b","o","g","u","s">>, <<"W","A","R","N","I","N">>,
          <<"w","a","r","n","i","n","g","s">>, <<"l","o","g"," ","7">>, <<"T","R","A","C","E","-">>}

InitLevel ==
    /\ now = Now0
    /\ logs = {}
    /\ r2 = <<>>
    /\ bg = {}
    /\ uuids = 0
    /\ calls = 0
    /\ ret = NoRet
    /\ archiveLog = {}
    /\ batch = NoBatch
    /\ batchRet = NoBatchRet
    /\ cl = NoCleanup
    /\ input = RecANow
    /\ level \in LevelInputs
    /\ normalized = Undefined
    /\ aq = NoQueue
    /\ agent = NoAgent
    /\ wf = NoWorkflow

Normalize ==
    /\ normalized = Undefined
    /\ normalized' = normalizeLogLevel(level)
    /\ UNCHANGED <<wf, aq, agent, now, logs, r2, bg, uuids, calls, ret, archiveLog, batch, batchRet,
                   cl, input, level>>

NextLevel == Normalize

SpecLevel == InitLevel /\ [][NextLevel]_vars

\* u is s with every lower-case letter replaced by its upper-case letter
IsUpperCased(u, s) ==
    /\ Len(u) = Len(s)
    /\ \A i \in 1..Len(s) :
          IF \E k \in DOMAIN LowerCase : s[i] = LowerCase[k]
          THEN \E k \in DOMAIN LowerCase : s[i] = LowerCase[k] /\ u[i] = UpperCase[k]
          ELSE u[i] = s[i]

\* C9: normalizeLogLevel returns a string for every string; WARNING, FATAL and
\* TRACE in any letter case give WARN, CRITICAL and DEBUG, and every other
\* input gives its upper-cased form.
C9_NormalizeLogLevel ==
    normalized # Undefined =>
       /\ \A i \in DOMAIN normalized : normalized[i] \notin Range(LowerCase)
       /\ (IsUpperCased(WARNING, level) => normalized = WARN)
       /\ (IsUpperCased(FATAL, level) => normalized = CRITICAL)
       /\ (IsUpperCased(TRACE, level) => normalized = DEBUG)
       /\ (~IsUpperCased(WARNING, level) /\ ~IsUpperCased(FATAL, level)
              /\ ~IsUpperCased(TRACE, level)) => IsUpperCased(normalized, level)
       /\ (level \in {INFO, <<"i","n","f","o">>} => normalized = INFO)
       /\ (level \in {ERROR, <<"e","r","r","o","r">>} => normalized = ERROR)
       /\ (level \in {WARN, <<"w","a","r","n">>} => normalized = WARN)

\* a mixed-case spelling of trace was normalized to DEBUG
C9_Witness ==
    level = <<"t","R","a","c","E">> /\ normalized = DEBUG

---------------------------------------------------------------------------
(* batchIngestLogs and POST /ingest/batch *)

RecNoLevel == LogEntry(NoId, SvcA, Undefined, MsgShort, NoTimestamp, NoMetadata)
RecBadName == LogEntry("b", <<"s","v","c"," ","a">>, INFO, MsgShort, NoTimestamp, NoMetadata)

BatchRecords == {RecAOld, RecANow, RecBadLevel, RecBadName, RecNoLevel}

\* the batches submitted: every batch of up to MaxBatch records, and two
\* batches at the route's size limit (of records the validator rejects)
Batches ==
    UNION {[1..k -> BatchRecords] : k \in 0..MaxBatch}
    \cup {[i \in 1..MaxBatchLength |-> RecBadName],
          [i \in 1..(MaxBatchLength + 1) |-> RecBadName]}

\* number of true entries of a sequence of booleans
CountTrue(q) == Cardinality({i \in DOMAIN q : q[i]})

\* ids generated for the records before position i of a batch
uuidsBefore(batchLogs, i) == CountTrue([j \in 1..(i - 1) |-> batchLogs[j].id = NoId])

\* the result loop of batchIngestLogs ending at the first rejected result
tally_StopAtFirst(st, errs) ==
    LET firstBad == IF \E i \in DOMAIN st : st[i] = "rejected"
                    THEN CHOOSE i \in DOMAIN st :
                            st[i] = "rejected" /\ \A j \in 1..(i - 1) : st[j] # "rejected"
                    ELSE Len(st) + 1
    IN  [successful |-> CountTrue([i \in DOMAIN st |-> i < firstBad /\ st[i] = "fulfilled"]),
         failed |-> IF firstBad <= Len(st) THEN 1 ELSE 0,
         errors |-> IF firstBad <= Len(st) THEN <<errs[firstBad]>> ELSE <<>>]

\* lines 71-80: the result loop of batchIngestLogs
tally(st, errs) ==
    [successful |-> CountTrue([i \in DOMAIN st |-> st[i] = "fulfilled"]),
     failed |-> CountTrue([i \in DOMAIN st |-> st[i] = "rejected"]),
     errors |-> SelectSeq(errs, LAMBDA e : e # NoError)]

\* Promise.all in place of Promise.allSettled: one rejection rejects the whole
promiseOutcome_All(st) == IF \E i \in DOMAIN st : st[i] = "rejected" THEN "raised" ELSE "returned"

\* await Promise.allSettled(...) never rejects
promiseOutcome(st) == "returned"

\* lines 62-69: every record's ingestLog runs up to its await of the insert;
\* records the validator rejects are settled at once
BatchIngestStart(batchLogs, via, n) ==
    LET preps == [i \in DOMAIN batchLogs |->
                     prepare(batchLogs[i], uuids + uuidsBefore(batchLogs, i))]
    IN  /\ batch' = [pc |-> "inserting", n |-> n, via |-> via, logs |-> batchLogs,
                     entries |-> [i \in DOMAIN batchLogs |-> preps[i].logEntry],
                     st |-> [i \in DOMAIN batchLogs |->
                               IF preps[i].error # NoError THEN "rejected" ELSE "pending"],
                     errs |-> [i \in DOMAIN batchLogs |-> preps[i].error],
                     idsBefore |-> {row.id : row \in logs}]
        /\ uuids' = uuids + uuidsBefore(batchLogs, Len(batchLogs) + 1)

\* batchIngestLogs called directly with a non-empty batch of ordinary size
BatchIngestCall ==
    /\ batch = NoBatch /\ calls < MaxRequests
    /\ \E batchLogs \in Batches :
         /\ Len(batchLogs) \in 1..MaxBatch
         /\ {i \in DOMAIN batchLogs : batchLogs[i].level = Undefined} = {}
         /\ BatchIngestStart(batchLogs, "direct", calls + 1)
    /\ calls' = calls + 1
    /\ UNCHANGED <<wf, aq, agent, now, logs, r2, bg, ret, archiveLog, batchRet, cl, input, level, normalized>>

\* lines 82-89 of the route: the entry built from one submitted record
routeEntry(log) ==
    [id |-> NoId,
     service_name |-> log.service_name,
     level |-> normalizeLogLevel(log.level),
     message |-> log.message,
     timestamp |-> IF log.timestamp # NoTimestamp THEN log.timestamp ELSE now,
     metadata |-> IF log.metadata # NoMetadata THEN log.metadata ELSE EmptyObjectJsonLength,
     source_type |-> "http"]

\* lines 73-79 of the route: logs.length === 0 or logs.length > 1000
sizeRejected(size) == size = 0 \/ size > MaxBatchLength

\* POST /ingest/batch up to the call of batchIngestLogs
BatchRequest ==
    /\ batch = NoBatch /\ calls < MaxRequests
    /\ calls' = calls + 1
    /\ \E batchLogs \in Batches :
         IF sizeRejected(Len(batchLogs))
         THEN /\ batchRet' = [n |-> calls + 1, via |-> "route", size |-> Len(batchLogs),
                              status |-> "rejected", http |-> 400, invoked |-> FALSE]
              /\ UNCHANGED <<batch, uuids>>
         ELSE IF \E i \in DOMAIN batchLogs : batchLogs[i].level = Undefined
         THEN \* normalizeLogLevel(undefined) throws a TypeError, caught by the route
              /\ batchRet' = [n |-> calls + 1, via |-> "route", size |-> Len(batchLogs),
                              status |-> "crashed", http |-> 500, invoked |-> FALSE]
              /\ UNCHANGED <<batch, uuids>>
         ELSE /\ BatchIngestStart([i \in DOMAIN batchLogs |-> routeEntry(batchLogs[i])],
                                  "route", calls + 1)
              /\ batchRet' = batchRet
    /\ UNCHANGED <<wf, aq, agent, now, logs, r2, bg, ret, archiveLog, cl, input, level, normalized>>

\* one record's insert completes; on success its archive task is detached
BatchInsert(i) ==
    /\ batch.pc = "inserting" /\ i \in DOMAIN batch.st /\ batch.st[i] = "pending"
    /\ \E fault \in BOOLEAN :
         LET ins == storeLogMetadata(logs, batch.entries[i], fault)
         IN  /\ logs' = ins.table
             /\ batch' = [batch EXCEPT
                            !.st[i] = IF ins.error # NoError THEN "rejected" ELSE "fulfilled",
                            !.errs[i] = ins.error]
             /\ bg' = IF ins.error # NoError THEN bg
                      ELSE bg \cup {archiveTask(<<batch.n, i>>, batch.entries[i])}
    /\ UNCHANGED <<wf, aq, agent, now, r2, uuids, calls, ret, archiveLog, batchRet, cl, input, level, normalized>>

\* every promise has settled: batchIngestLogs returns its counts, and the route
\* answers with them
BatchReturn ==
    /\ batch.pc = "inserting"
    /\ {i \in DOMAIN batch.st : batch.st[i] = "pending"} = {}
    /\ LET t == tally(batch.st, batch.errs)
       IN  batchRet' = [n |-> batch.n, via |-> batch.via, size |-> Len(batch.logs),
                        status |-> promiseOutcome(batch.st),
                        http |-> IF batch.via = "route" THEN 200 ELSE 0,
                        invoked |-> TRUE,
                        successful |-> t.successful, failed |-> t.failed,
                        errors |-> t.errors]
    /\ batch' = NoBatch
    /\ UNCHANGED <<wf, aq, agent, now, logs, r2, bg, uuids, calls, ret, archiveLog, cl, input, level, normalized>>

\* the row an earlier ingestLog of RecAOld left (its archive upload failed)
RowAOld == rowOf(prepare(RecAOld, 0).logEntry)

\* the batch arrives at an empty store or at one that already holds a row
InitBatch ==
    /\ now = Now0
    /\ logs \in {{}, {RowAOld}}
    /\ r2 = <<>>
    /\ bg = {}
    /\ uuids = 0
    /\ calls = 0
    /\ ret = NoRet
    /\ archiveLog = {}
    /\ batch = NoBatch
    /\ batchRet = NoBatchRet
    /\ cl = NoCleanup
    /\ input = RecANow
    /\ level = <<>>
    /\ normalized = Undefined
    /\ aq = NoQueue
    /\ agent = NoAgent
    /\ wf = NoWorkflow

NextBatch ==
    \/ BatchRequest
    \/ BatchIngestCall
    \/ \E i \in 1..MaxBatch : BatchInsert(i)
    \/ BatchReturn
    \/ Archive

SpecBatch == InitBatch /\ [][NextBatch]_vars

---------------------------------------------------------------------------
(* Claims about batchIngestLogs and POST /ingest/batch, under SpecBatch *)

\* the step in which batchIngestLogs returns
BatchReturns == batch.pc = "inserting" /\ batch'.pc = "none"

\* positions of the batch whose record the validator rejects
InvalidAt == {i \in DOMAIN batch.entries : validateLogEntry(batch.entries[i]) # NoError}

\* no insert of the batch met a failure of the store
StoresHealthy == \A i \in DOMAIN batch.errs : batch.errs[i] # "D1_ERROR"

\* no valid record carries an id already in the store or carried by another
\* valid record of the batch
FreshIds ==
    \A i \in DOMAIN batch.logs \ InvalidAt :
        batch.logs[i].id # NoId =>
            /\ batch.logs[i].id \notin batch.idsBefore
            /\ \A j \in DOMAIN batch.logs \ InvalidAt :
                   j # i => batch.logs[j].id # batch.logs[i].id

CountsAddUp ==
    /\ batchRet'.successful + batchRet'.failed = Len(batch.logs)
    /\ Len(batchRet'.errors) = batchRet'.failed

\* C5 as stated: with healthy stores, a batch of N records of which K are
\* invalid returns successful = N - K and failed = K; and in every case
\* successful + failed = N and errors holds one message per failed record.
C5_AsStated ==
    [][BatchReturns =>
         /\ StoresHealthy =>
              /\ batchRet'.successful = Len(batch.logs) - Cardinality(InvalidAt)
              /\ batchRet'.failed = Cardinality(InvalidAt)
         /\ CountsAddUp]_vars

\* C5: with healthy stores and no valid record carrying an id that is
\* already stored or carried by another valid record of the batch, a batch of
\* N records of which K are invalid returns successful = N - K and
\* failed = K; and in every case successful + failed = N and errors holds one
\* message per failed record.
C5_BatchCounts ==
    [][BatchReturns =>
         /\ (StoresHealthy /\ FreshIds) =>
              /\ batchRet'.successful = Len(batch.logs) - Cardinality(InvalidAt)
              /\ batchRet'.failed = Cardinality(InvalidAt)
         /\ CountsAddUp]_vars

\* a healthy batch of two records with fresh ids, one of them invalid, returned
C5_Witness ==
    /\ batchRet.status = "returned"
    /\ batchRet.size = 2
    /\ batchRet.successful = 1
    /\ batchRet.failed = 1
    /\ batchRet.errors[1] \in ValidationErrors
    /\ Cardinality(logs) = 1

\* C6: when batchIngestLogs returns, every record of the batch that is valid
\* and whose own insert succeeded has its row in the table, whatever the
\* position and number of the failing records; and batchIngestLogs returns,
\* it never raises.
C6_FailuresIsolated ==
    [][BatchReturns =>
         /\ \A i \in DOMAIN batch.entries \ InvalidAt :
                batch.errs[i] = NoError =>
                    \E row \in logs' :
                        [row EXCEPT !.r2_key = NoKey] = rowOf(batch.entries[i])
         /\ batchRet'.status = "returned"]_vars

\* a batch of two returned after one record's insert failed and the other's
\* succeeded
C6_Witness ==
    /\ batchRet.status = "returned"
    /\ batchRet.size = 2
    /\ batchRet.successful = 1
    /\ batchRet.errors = <<"D1_ERROR">>
    /\ \E row \in logs : row.id # RowAOld.id

\* the step in which POST /ingest/batch receives a batch
RouteReceives ==
    /\ calls' # calls
    /\ \/ batch'.pc = "inserting" /\ batch'.via = "route"
       \/ batchRet' # batchRet /\ batchRet'.via = "route"

ReceivedSize == IF batch'.pc = "inserting" THEN Len(batch'.logs) ELSE batchRet'.size

\* C7 as stated: a batch of size 0 or of more than 1000 records is rejected
\* by the route before batchIngestLogs is invoked, and nothing is written for
\* it; a batch of 1 to 1000 records is passed on to batchIngestLogs.
C7_AsStated ==
    [][RouteReceives =>
         /\ (ReceivedSize = 0 \/ ReceivedSize > MaxBatchLength) =>
              /\ batch' = NoBatch
              /\ batchRet'.status = "rejected" /\ ~batchRet'.invoked
              /\ logs' = logs /\ r2' = r2 /\ bg' = bg
         /\ ReceivedSize \in 1..MaxBatchLength => batch'.pc = "inserting"]_vars

\* C7, the rejection alone: a batch of size 0 or of more than 1000 records
\* is rejected by the route before batchIngestLogs is invoked, and nothing is
\* written for it.
C7_SizeRejection ==
    [][(RouteReceives /\ (ReceivedSize = 0 \/ ReceivedSize > MaxBatchLength)) =>
         /\ batch' = NoBatch
         /\ batchRet'.status = "rejected" /\ ~batchRet'.invoked
         /\ logs' = logs /\ r2' = r2 /\ bg' = bg]_vars

\* a batch of more than 1000 records was rejected
C7_WitnessRejected == batchRet.status = "rejected" /\ batchRet.size > MaxBatchLength

\* a batch of 1000 records was passed on and returned
C7_WitnessLimit == batchRet.status = "returned" /\ batchRet.size = MaxBatchLength

---------------------------------------------------------------------------
(* Claims about cleanupCron, under Spec *)

\* the row is expired for the service the run is cleaning, and the run's
\* cutoff is no later than the present cutoff of that service
MayBeCleaned(row) ==
    /\ row.service_name = cl.serviceName
    /\ row.timestamp < cl.cutoffTime
    /\ cl.cutoffTime <= now - ttlDaysOf(row.service_name) * DayMs

\* C10: in every interleaving of a cleanup run with ingestion and the
\* detached archive writes, a step that deletes a row from the table deletes
\* only rows of the service being cleaned whose timestamp is before that
\* service's cutoff, and a step that deletes an archive object deletes no
\* object of a stored row that is of another service or has a timestamp at
\* or after the cutoff.
C10_CleanupSparesFresh ==
    [][/\ \A row \in logs :
             (\A kept \in logs' : kept.id # row.id) => MayBeCleaned(row)
       /\ \A key \in DOMAIN r2 \ DOMAIN r2' :
             \A row \in logs :
                 (generateR2Key(row) = key \/ row.r2_key = key) => MayBeCleaned(row)]_vars

\* the run has deleted rows of a service while a row of that service at or
\* after the cutoff, ingested beside it, is still stored
C10_Witness ==
    /\ cl.totalDeleted > 0
    /\ \E row \in logs :
          row.service_name = cl.serviceName /\ row.timestamp >= cl.cutoffTime

\* the run has deleted an archive object and rows while a row of another
\* service is still stored
C10_WitnessOtherService ==
    /\ cl.totalDeleted > 0
    /\ archiveLog # {} /\ DOMAIN r2 = {}
    /\ \E row \in logs : row.service_name \notin {cl.serviceName, SvcCleanup}

---------------------------------------------------------------------------
(* cleanupCron on a store at rest: no ingestion while it runs *)

\* the entry an earlier ingestLog stored
storedEntry(id, service_name, timestamp) ==
    prepare(LogEntry(id, service_name, INFO, MsgShort, timestamp, NoMetadata), 0).logEntry

\* its row, with the archive key when the archive task had succeeded
storedRow(id, service_name, timestamp, archived) ==
    [rowOf(storedEntry(id, service_name, timestamp)) EXCEPT
        !.r2_key = IF archived THEN generateR2Key(storedEntry(id, service_name, timestamp))
                   ELSE NoKey]

\* k-th expired row of SvcA; the odd ones were archived
ExpiredA(k) ==
    storedRow("e" \o ToString(k), SvcA, Now0 - default_ttl_days * DayMs - k, k % 2 = 1)

\* a row of SvcA exactly at the cutoff of a run at Now0
FreshA == storedRow("f", SvcA, Now0 - default_ttl_days * DayMs, TRUE)

\* an expired row of SvcB, which has its own TTL
OldB == storedRow("b", SvcB, Now0 - SvcBTtlDays * DayMs - 1, TRUE)

\* a row of SvcZ, configured with ttl_days = 0, ingested just before
RecentZ == storedRow("z", SvcZ, Now0 - 1, TRUE)

InitialStores ==
    {{ExpiredA(k) : k \in 1..n} \cup fa \cup b \cup z :
        n \in 0..MaxExpired, fa \in {{}, {FreshA}}, b \in {{}, {OldB}}, z \in {{}, {RecentZ}}}

\* the archive objects of the rows that carry a key
archiveOf(table) ==
    [key \in {row.r2_key : row \in {x \in table : x.r2_key # NoKey}} |->
        compressData(CHOOSE row \in table : row.r2_key = key)]

InitCleanup ==
    /\ now = Now0
    /\ logs \in InitialStores
    /\ r2 = archiveOf(logs)
    /\ bg = {}
    /\ uuids = 0
    /\ calls = 0
    /\ ret = NoRet
    /\ archiveLog = {}
    /\ batch = NoBatch
    /\ batchRet = NoBatchRet
    /\ cl = NoCleanup
    /\ input = RecANow
    /\ level = <<>>
    /\ normalized = Undefined
    /\ aq = NoQueue
    /\ agent = NoAgent
    /\ wf = NoWorkflow

NextCleanup ==
    \/ cl.run < MaxRuns /\ CleanupStart
    \/ CleanupRunning
    \/ Tick

\* a started run is not suspended for ever
SpecCleanup == InitCleanup /\ [][NextCleanup]_vars /\ WF_vars(CleanupRunning)

---------------------------------------------------------------------------
(* Claims about cleanupCron on a store at rest, under SpecCleanup *)

\* the run is over and it ended without throwing
RunCompleted == cl.pc = "idle" /\ cl.outcome = "completed"

\* the row's service was processed by the run and the row is not below the
\* cutoff the run computed for it; the run's own summary row is of the present
NotBelowCutoff(row) ==
    \/ /\ \E c \in cl.cutoffs : c.service_name = row.service_name
       /\ \A c \in cl.cutoffs :
             c.service_name = row.service_name => row.timestamp >= c.cutoffTime
    \/ /\ row.service_name = SvcCleanup
       /\ row.timestamp >= now - ttlDaysOf(SvcCleanup) * DayMs

\* C11: with no ingestion going on, a cleanup run that has started comes to
\* its end, and when it has ended without a store failure no row of any
\* service has a timestamp below the cutoff of its service; for every batch
\* size from 1 up and every number of expired rows, multiples of the batch
\* size and counts above it included.
C11_CleanupCompletes ==
    /\ [](RunCompleted => \A row \in logs : NotBelowCutoff(row))
    /\ (cl.pc # "idle") ~> (cl.pc = "idle")

\* a run with batch size 2 completed after deleting four expired rows of one
\* service (two full batches and an empty one)
C11_Witness ==
    /\ RunCompleted /\ cl.run = 1
    /\ cl.batchSize = 2 /\ cl.totalDeleted = MaxExpired
    /\ Cardinality(cl.cutoffs) = 1


\* the TTL configured for a service, the default when it has no configuration
ConfiguredTtl(serviceName) ==
    IF \E c \in service_configs : c.service_name = serviceName
    THEN (CHOOSE c \in service_configs : c.service_name = serviceName).ttl_days
    ELSE default_ttl_days

\* C12 as stated: the TTL a run applies to a service is the ttl_days of its
\* configuration whenever it has one and the default only when it has none;
\* so after a completed run no row and no archive object is left of a
\* service configured with ttl_days = 0.
C12_AsStated ==
    /\ \A c \in cl.cutoffs : c.ttlDays = ConfiguredTtl(c.service_name)
    /\ (RunCompleted /\ cl.r2Failed = {}) =>
          \A s \in {c.service_name : c \in cl.cutoffs} :
             ConfiguredTtl(s) = 0 =>
                /\ \A row \in logs : row.service_name # s
                /\ \A key \in DOMAIN r2 : key[1] # s

\* C12, the services configured with a TTL other than 0: a run applies the
\* configured ttl_days to them, and the default to the services without a
\* configuration.
C12_NonZeroTtl ==
    \A c \in cl.cutoffs :
        ConfiguredTtl(c.service_name) # 0 => c.ttlDays = ConfiguredTtl(c.service_name)

\* a run has computed the cutoff of the service configured with its own TTL
C12_WitnessConfigured ==
    \E c \in cl.cutoffs : c.service_name = SvcB /\ c.ttlDays = SvcBTtlDays


\* the run ended by a store failure met while a service was being cleaned
FailedAtService == cl.pc = "idle" /\ cl.outcome = "failed" /\ cl.serviceName # <<>>

\* the time at which the cutoff of the service being cleaned was computed
CutoffComputedAt == cl.cutoffTime + ttlDaysOf(cl.serviceName) * DayMs

\* C13 as stated: when the cleaning of one service fails on a store
\* operation, the run still processes every service after it: none of them
\* is left with a row that was already expired when the failing service was
\* begun.
C13_AsStated ==
    FailedAtService =>
        \A i \in DOMAIN cl.services :
            \A row \in logs :
                row.service_name = cl.services[i] =>
                    row.timestamp >= CutoffComputedAt - ttlDaysOf(cl.services[i]) * DayMs


\* the ids of the batch being deleted
BatchIds == {cl.logsToDelete[i].id : i \in DOMAIN cl.logsToDelete}

\* C14: an archive delete of a record of a cleanup batch, failed or not,
\* does not end the run: the batch stays as fetched and the run goes on to
\* delete its rows, and unless the row delete itself fails every row of the batch, the
\* one whose archive delete failed included, is removed and the run proceeds
\* to the next batch or the next service.
C14_ArchiveDeleteNonFatal ==
    [][/\ (cl.pc = "r2delete" /\ cl.r2Pending # {} /\ cl' # cl) =>
             /\ cl'.pc = "r2delete" /\ cl'.outcome = "running"
             /\ cl'.logsToDelete = cl.logsToDelete
             /\ logs' = logs
       /\ (cl.pc = "r2delete" /\ cl.r2Failed # {} /\ cl.r2Pending = {}
           /\ cl' # cl /\ cl'.outcome # "failed") =>
             /\ \A row \in logs' : row.id \notin BatchIds
             /\ cl'.pc \in {"fetch", "service"}
             /\ cl'.pc = "fetch" <=> Len(cl.logsToDelete) = cl.batchSize]_vars

\* the rows of a batch are gone although an archive delete of the batch had
\* failed, and the run is going on
C14_Witness ==
    /\ cl.r2Failed # {} /\ cl.pc \in {"fetch", "service"} /\ cl.outcome = "running"
    /\ cl.totalDeleted > 0
    /\ \A row \in logs : row.id \notin BatchIds
    /\ \E i \in cl.r2Failed : cl.logsToDelete[i].r2_key \in DOMAIN r2


\* a step of a run that follows a completed run, no time having passed (the
\* cutoffs are those of the run before) and nothing having been ingested
SecondRunStep == cl'.run >= 2 /\ cl'.prev = "completed" /\ now' = Now0

\* C15: a cleanup run that follows a completed run, with no new data and the
\* same cutoffs, deletes nothing: every row and every archive object stays as
\* it is, and the run counts zero records deleted.
C15_CleanupIdempotent ==
    [][SecondRunStep =>
         /\ \A row \in logs : row \in logs'
         /\ \A key \in DOMAIN r2 : key \in DOMAIN r2' /\ r2'[key] = r2[key]
         /\ cl'.totalDeleted = 0]_vars

\* the second of two completed runs has ended over a store that still holds a
\* row the first run kept beside the first run's summary row
C15_Witness ==
    /\ RunCompleted /\ cl.run = 2 /\ cl.prev = "completed" /\ now = Now0
    /\ FreshA \in logs
    /\ Cardinality({row \in logs : row.service_name = SvcCleanup}) = 2
    /\ Cardinality(cl.cutoffs) = 2

---------------------------------------------------------------------------
(* POST /analyze, the analysis queue and its consumer handleAnalysisQueue *)

NoRow == -1

ErrAnalysisFailed == "Analysis failed"

\* the row POST /analyze inserts into analysis_queue
queuedRow(id) == [id |-> id, status |-> "queued", retry_count |-> 0, error_message |-> NoError]

\* UPDATE analysis_queue SET status = 'processing' WHERE id = ?
markProcessing(table, id) ==
    {IF row.id = id THEN [row EXCEPT !.status = "processing"] ELSE row : row \in table}

\* UPDATE analysis_queue SET status = 'completed' WHERE id = ?
markCompleted(table, id) ==
    {IF row.id = id THEN [row EXCEPT !.status = "completed"] ELSE row : row \in table}

\* UPDATE analysis_queue SET status = 'failed', error_message = ?,
\* retry_count = retry_count + 1 WHERE id = ?
markFailed(table, id, error) ==
    {IF row.id = id
     THEN [row EXCEPT !.status = "failed", !.error_message = error,
                      !.retry_count = @ + 1]
     ELSE row : row \in table}

\* retry_count of the row of an id, NoRow when the table has no such row
retryCountOf(table, id) ==
    IF \E row \in table : row.id = id
    THEN (CHOOSE row \in table : row.id = id).retry_count
    ELSE NoRow

statusOf(table, id) ==
    IF \E row \in table : row.id = id
    THEN (CHOOSE row \in table : row.id = id).status
    ELSE "none"

errorOf(table, id) ==
    IF \E row \in table : row.id = id
    THEN (CHOOSE row \in table : row.id = id).error_message
    ELSE NoError

\* lines 99-114 of the route: the session id is generated and the message sent
EnqueueSend ==
    /\ Cardinality(aq.enq) < MaxAnalyses
    /\ uuids' = uuids + 1
    /\ \E fault \in BOOLEAN :
         LET id == randomUUID(uuids + 1)
         IN  IF fault
             THEN aq' = [aq EXCEPT !.enq = @ \cup {[id |-> id, state |-> "error"]}]
             ELSE aq' = [aq EXCEPT !.enq = @ \cup {[id |-> id, state |-> "sent"]},
                                   !.pending = @ \cup {id}]
    /\ UNCHANGED <<wf, agent, now, logs, r2, bg, calls, ret, archiveLog, batch, batchRet, cl,
                   input, level, normalized>>

\* lines 116-141 of the route: the tracking row is inserted and the request
\* answered; a failed insert answers 500 with the message already sent
EnqueueInsert ==
    /\ \E e \in aq.enq :
         /\ e.state = "sent"
         /\ \E fault \in BOOLEAN :
              IF fault
              THEN aq' = [aq EXCEPT !.enq = (@ \ {e}) \cup {[e EXCEPT !.state = "error"]}]
              ELSE aq' = [aq EXCEPT !.enq = (@ \ {e}) \cup {[e EXCEPT !.state = "tracked"]},
                                    !.tracking = @ \cup {queuedRow(e.id)}]
    /\ UNCHANGED <<wf, agent, now, logs, r2, bg, uuids, calls, ret, archiveLog, batch, batchRet,
                   cl, input, level, normalized>>

\* the orders in which the queue may hand over up to MaxQueueBatch messages
QueueBatches(S) ==
    {q \in UNION {[1..k -> S] : k \in 1..MaxQueueBatch} :
        \A i, j \in DOMAIN q : i # j => q[i] # q[j]}

\* the queue delivers a batch: handleAnalysisQueue starts on its first message
Deliver ==
    /\ aq.con.pc = "idle" /\ aq.deliveries < MaxDeliveries
    /\ \E b \in QueueBatches(aq.pending) :
         aq' = [aq EXCEPT !.pending = @ \ Range(b),
                          !.deliveries = @ + 1,
                          !.con = [pc |-> "begin", batch |-> b, i |-> 1, wf |-> "none",
                                   error |-> NoError,
                                   before |-> retryCountOf(aq.tracking, b[1]),
                                   done |-> <<>>]]
    /\ UNCHANGED <<wf, agent, now, logs, r2, bg, uuids, calls, ret, archiveLog, batch, batchRet,
                   cl, input, level, normalized>>

\* a handler that acknowledges after every message, failed or not
handlerSignals_AckAlways(outcome) ==
    IF outcome = "returned" THEN <<"ack">> ELSE <<"retry", "ack">>

\* lines 21-27: try { await process...; message.ack() } catch { message.retry() }
handlerSignals(outcome) == IF outcome = "returned" THEN <<"ack">> ELSE <<"retry">>

\* a for loop that a failing message leaves
nextMessage_Abort(i, n, outcome) == IF outcome = "returned" THEN i + 1 ELSE n + 1

\* line 20: for (const message of batch.messages), whatever the outcome
nextMessage(i, n, outcome) == i + 1

\* processAnalysisMessage has returned or raised for message i: the handler
\* signals the queue and goes on; table is analysis_queue after the attempt
Settle(table, outcome, marked, raised) ==
    LET c == aq.con
        id == c.batch[c.i]
        signals == handlerSignals(outcome)
        result == [id |-> id, delivery |-> aq.deliveries, signals |-> signals,
                   wf |-> c.wf, marked |-> marked, raised |-> raised,
                   before |-> c.before, after |-> retryCountOf(table, id),
                   status |-> statusOf(table, id), error |-> errorOf(table, id)]
        next == nextMessage(c.i, Len(c.batch), outcome)
        acked == signals[Len(signals)] = "ack"
    IN  aq' = [aq EXCEPT
                 !.tracking = table,
                 !.pending = IF acked THEN @ ELSE @ \cup {id},
                 !.att = Append(@, result),
                 !.con = IF next > Len(c.batch)
                         THEN [c EXCEPT !.pc = "idle", !.i = next, !.wf = "none",
                                        !.error = NoError, !.before = 0,
                                        !.done = Append(@, result)]
                         ELSE [c EXCEPT !.pc = "begin", !.i = next, !.wf = "none",
                                        !.error = NoError,
                                        !.before = retryCountOf(table, c.batch[next]),
                                        !.done = Append(@, result)]]

\* lines 41-48: UPDATE ... status = 'processing'; a failure here is outside
\* the try of processAnalysisMessage and goes straight to the handler
ConsumeBegin ==
    /\ aq.con.pc = "begin"
    /\ \E fault \in BOOLEAN :
         IF fault
         THEN Settle(aq.tracking, "raised", "none", "processing")
         ELSE aq' = [aq EXCEPT
                       !.tracking = markProcessing(@, aq.con.batch[aq.con.i]),
                       !.con.pc = "workflow"]
    /\ UNCHANGED <<wf, agent, now, logs, r2, bg, uuids, calls, ret, archiveLog, batch, batchRet,
                   cl, input, level, normalized>>

\* lines 51-62 and 73-75: runAnalysisWorkflow returns success or failure
ConsumeWorkflow ==
    /\ aq.con.pc = "workflow"
    /\ \E success \in BOOLEAN :
         aq' = IF success
               THEN [aq EXCEPT !.con.pc = "complete", !.con.wf = "success"]
               ELSE [aq EXCEPT !.con.pc = "fail", !.con.wf = "failure",
                               !.con.error = ErrAnalysisFailed]
    /\ UNCHANGED <<wf, agent, now, logs, r2, bg, uuids, calls, ret, archiveLog, batch, batchRet,
                   cl, input, level, normalized>>

\* lines 63-72: UPDATE ... status = 'completed'; its failure is caught at line 76
ConsumeComplete ==
    /\ aq.con.pc = "complete"
    /\ \E fault \in BOOLEAN :
         IF fault
         THEN aq' = [aq EXCEPT !.con.pc = "fail", !.con.error = "D1_ERROR"]
         ELSE Settle(markCompleted(aq.tracking, aq.con.batch[aq.con.i]),
                     "returned", "completed", "none")
    /\ UNCHANGED <<wf, agent, now, logs, r2, bg, uuids, calls, ret, archiveLog, batch, batchRet,
                   cl, input, level, normalized>>

\* lines 76-92: UPDATE ... status = 'failed', retry_count + 1, then throw
ConsumeFail ==
    /\ aq.con.pc = "fail"
    /\ \E fault \in BOOLEAN :
         IF fault
         THEN Settle(aq.tracking, "raised", "none", "failed")
         ELSE Settle(markFailed(aq.tracking, aq.con.batch[aq.con.i], aq.con.error),
                     "raised", "failed",
                     IF aq.con.wf = "success" THEN "completed" ELSE "none")
    /\ UNCHANGED <<wf, agent, now, logs, r2, bg, uuids, calls, ret, archiveLog, batch, batchRet,
                   cl, input, level, normalized>>

Consume == ConsumeBegin \/ ConsumeWorkflow \/ ConsumeComplete \/ ConsumeFail

InitQueue == Init

NextQueue == EnqueueSend \/ EnqueueInsert \/ Deliver \/ Consume

SpecQueue == InitQueue /\ [][NextQueue]_vars

---------------------------------------------------------------------------
(* Claims about the queue consumer, under SpecQueue *)

\* the attempts made so far: one record per message per delivery
Attempts == {aq.att[k] : k \in DOMAIN aq.att}

\* C16: for every message of a delivered batch the consumer calls exactly
\* one of ack() and retry(), once; it calls ack() exactly when the workflow
\* run for the message returned success and the UPDATE to status completed
\* was carried out, and retry() in every other case.
C16_OneSignalPerMessage ==
    /\ \A a \in Attempts :
          /\ Len(a.signals) = 1
          /\ a.signals[1] \in {"ack", "retry"}
          /\ a.signals[1] = "ack" <=> (a.wf = "success" /\ a.marked = "completed")
    /\ \A k, l \in DOMAIN aq.att :
          (aq.att[k].id = aq.att[l].id /\ aq.att[k].delivery = aq.att[l].delivery) => k = l

\* one batch of two messages: the first acknowledged, the second sent back
\* after its workflow succeeded and the UPDATE to completed failed
C16_Witness ==
    /\ Len(aq.att) = 2
    /\ aq.att[1].delivery = aq.att[2].delivery
    /\ aq.att[1].signals = <<"ack">> /\ aq.att[1].status = "completed"
    /\ aq.att[2].signals = <<"retry">> /\ aq.att[2].wf = "success"

\* C17 as stated, for the messages whose tracking row exists: whenever
\* retry() is signalled for a message, its tracking row has status failed, a
\* retry_count one above the count before the attempt and an error message.
C17_AsStated ==
    \A a \in Attempts :
        (a.signals[1] = "retry" /\ a.before # NoRow) =>
            /\ a.status = "failed"
            /\ a.after = a.before + 1
            /\ a.error # NoError

\* C17, the failures met inside the try of processAnalysisMessage: when the
\* workflow fails or the UPDATE to completed raises, and the UPDATE to failed
\* is carried out, the row has status failed, a retry_count one above the
\* count before and the error message, and retry() is signalled.
C17_FailureRecorded ==
    \A a \in Attempts :
        (a.marked = "failed" /\ a.before # NoRow) =>
            /\ a.signals = <<"retry">>
            /\ a.status = "failed"
            /\ a.after = a.before + 1
            /\ a.error # NoError

\* C18 as stated: whenever a message has been acknowledged, the tracking row
\* of its id exists and has status completed, in every interleaving of the
\* enqueue request with the consumer.
C18_AsStated ==
    \A a \in Attempts :
        a.signals[1] = "ack" => statusOf(aq.tracking, a.id) = "completed"

\* C19: when the handler has gone through a delivered batch, every message
\* of the batch was processed, in order, whatever happened to the others, and
\* every message whose own workflow succeeded and whose own updates did not
\* raise was acknowledged.
C19_SiblingsProcessed ==
    LET c == aq.con
    IN  /\ Len(c.done) <= Len(c.batch)
        /\ \A i \in DOMAIN c.done :
              /\ c.done[i].id = c.batch[i]
              /\ (c.done[i].wf = "success" /\ c.done[i].raised = "none")
                     => c.done[i].signals = <<"ack">>
        /\ c.pc = "idle" => Len(c.done) = Len(c.batch)
        /\ c.pc # "idle" => c.i = Len(c.done) + 1

\* a batch of two is done: the first message failed on a store exception, the
\* second was acknowledged
C19_Witness ==
    /\ aq.con.pc = "idle" /\ Len(aq.con.batch) = 2 /\ Len(aq.con.done) = 2
    /\ aq.con.done[1].signals = <<"retry">> /\ aq.con.done[1].raised = "processing"
    /\ aq.con.done[2].signals = <<"ack">>

---------------------------------------------------------------------------
(* AnalysisAgent: the durable object of one analysis session *)

SessionId == "s1"

\* the bodies of POST /start: the same session over two services and ranges
StartParams ==
    {[session_id |-> SessionId, service_name |-> SvcA,
      start_time |-> Now0 - DayMs, end_time |-> Now0],
     [session_id |-> SessionId, service_name |-> SvcB,
      start_time |-> Now0 - 2 * DayMs, end_time |-> Now0 - DayMs]}

\* a session created with status pending, the default of the table's column
newState_Pending(params) ==
    [exists |-> TRUE,
     session |-> [id |-> params.session_id, service_name |-> params.service_name,
                  start_time |-> params.start_time, end_time |-> params.end_time,
                  status |-> "pending", created_at |-> now,
                  completed_at |-> NoTimestamp,
                  error_count |-> NoCount, warning_count |-> NoCount,
                  info_count |-> NoCount, summary |-> NoSummary,
                  patterns |-> NoList, recommendations |-> NoList],
     logs_processed |-> 0, current_step |-> "initializing", started_at |-> now]

\* lines 62-79: the state handleStart builds from the request; the fields of
\* AnalysisSession the request does not give are absent
newState(params) ==
    [exists |-> TRUE,
     session |-> [id |-> params.session_id, service_name |-> params.service_name,
                  start_time |-> params.start_time, end_time |-> params.end_time,
                  status |-> "running", created_at |-> now,
                  completed_at |-> NoTimestamp,
                  error_count |-> NoCount, warning_count |-> NoCount,
                  info_count |-> NoCount, summary |-> NoSummary,
                  patterns |-> NoList, recommendations |-> NoList],
     logs_processed |-> 0, current_step |-> "initializing", started_at |-> now]

\* lines 84-99: the row of analysis_sessions handleStart inserts; the columns
\* it does not bind are NULL
sessionRow(session) ==
    [id |-> session.id, service_name |-> session.service_name,
     start_time |-> session.start_time, end_time |-> session.end_time,
     status |-> session.status, created_at |-> session.created_at,
     error_count |-> NoCount, warning_count |-> NoCount, info_count |-> NoCount,
     summary |-> NoSummary, patterns_json |-> NoList,
     recommendations_json |-> NoList, completed_at |-> NoTimestamp]

\* x || 0, x || null and x || [] on a value that may be absent
orZero(n) == IF n = NoCount THEN 0 ELSE n
orNull(s) == IF s = "" THEN NoSummary ELSE s
orEmpty(l) == IF l = NoList THEN <<>> ELSE l

\* what a handler leaves behind and answers: the storage, the table
\* analysis_sessions, the HTTP status and the body
Handled(storage, sessions, http, body) ==
    [storage |-> storage, sessions |-> sessions, http |-> http, body |-> body]

\* handleStart: the state is put into storage, then the session row is
\* inserted; a failed insert (store fault or primary key) is answered 500 by
\* fetch's catch, with the storage already written
handleStart(do, params, fault) ==
    LET state == newState(params)
        conflict == \E row \in do.sessions : row.id = params.session_id
    IN  IF fault \/ conflict
        THEN Handled(state, do.sessions, 500, NoState)
        ELSE Handled(state, do.sessions \cup {sessionRow(state.session)}, 200, state)

\* handleStatus: 404 when the storage holds no state, the state otherwise
handleStatus(do) ==
    IF do.storage = NoState
    THEN Handled(do.storage, do.sessions, 404, NoState)
    ELSE Handled(do.storage, do.sessions, 200, do.storage)

\* an update that also resets the session to running
merged_Reopen(state, update) ==
    [state EXCEPT
       !.logs_processed = IF update.logs_processed # NoCount
                          THEN update.logs_processed ELSE @,
       !.current_step = IF update.current_step \notin {NoStep, ""}
                        THEN update.current_step ELSE @,
       !.session.status = "running",
       !.session.error_count = IF update.error_count # NoCount
                               THEN update.error_count ELSE @,
       !.session.warning_count = IF update.warning_count # NoCount
                                 THEN update.warning_count ELSE @,
       !.session.info_count = IF update.info_count # NoCount
                              THEN update.info_count ELSE @]

\* an update that overwrites every updatable field, absent ones included
merged_Overwrite(state, update) ==
    [state EXCEPT
       !.logs_processed = update.logs_processed,
       !.current_step = update.current_step,
       !.session.error_count = update.error_count,
       !.session.warning_count = update.warning_count,
       !.session.info_count = update.info_count]

\* lines 146-160: the fields of the request merged into the stored state;
\* current_step is tested for truth, the numbers against undefined
merged(state, update) ==
    [state EXCEPT
       !.logs_processed = IF update.logs_processed # NoCount
                          THEN update.logs_processed ELSE @,
       !.current_step = IF update.current_step \notin {NoStep, ""}
                        THEN update.current_step ELSE @,
       !.session.error_count = IF update.error_count # NoCount
                               THEN update.error_count ELSE @,
       !.session.warning_count = IF update.warning_count # NoCount
                                 THEN update.warning_count ELSE @,
       !.session.info_count = IF update.info_count # NoCount
                              THEN update.info_count ELSE @]

\* handleUpdate: 404 without a stored state; otherwise the merged state is
\* put into storage and analysis_sessions is not touched
handleUpdate(do, update) ==
    IF do.storage = NoState
    THEN Handled(do.storage, do.sessions, 404, NoState)
    ELSE Handled(merged(do.storage, update), do.sessions, 200, NoState)

\* UPDATE analysis_sessions ... WHERE id = ?: the rows of the id rewritten,
\* no row added
updateSession(sessions, id, change(_)) ==
    {IF row.id = id THEN change(row) ELSE row : row \in sessions}

\* lines 185-189 of handleComplete
completedSession(session, result) ==
    [session EXCEPT !.status = "completed", !.completed_at = now,
                    !.summary = result.summary, !.patterns = result.patterns,
                    !.recommendations = result.recommendations]

\* lines 192-215 of handleComplete: the columns the UPDATE binds
completedRow(row, session) ==
    [row EXCEPT !.status = session.status,
                !.error_count = orZero(session.error_count),
                !.warning_count = orZero(session.warning_count),
                !.info_count = orZero(session.info_count),
                !.summary = orNull(session.summary),
                !.patterns_json = orEmpty(session.patterns),
                !.recommendations_json = orEmpty(session.recommendations),
                !.completed_at = session.completed_at]

\* handleComplete: 404 without a stored state; otherwise the session row is
\* updated, then the completed state is put into storage; a failed UPDATE is
\* answered 500 and leaves the storage as it was
handleComplete(do, result, fault) ==
    IF do.storage = NoState
    THEN Handled(do.storage, do.sessions, 404, NoState)
    ELSE IF fault
    THEN Handled(do.storage, do.sessions, 500, NoState)
    ELSE LET session == completedSession(do.storage.session, result)
             state == [do.storage EXCEPT !.session = session]
             change(row) == completedRow(row, session)
         IN  Handled(state, updateSession(do.sessions, session.id, change), 200, state)

\* lines 240-241 of handleFail
failedSession(session) ==
    [session EXCEPT !.status = "failed", !.completed_at = now]

\* lines 244-250 of handleFail: the columns the UPDATE binds
failedRow(row, session) ==
    [row EXCEPT !.status = session.status, !.completed_at = session.completed_at]

\* handleFail: as handleComplete, with status failed and no result
handleFail(do, fault) ==
    IF do.storage = NoState
    THEN Handled(do.storage, do.sessions, 404, NoState)
    ELSE IF fault
    THEN Handled(do.storage, do.sessions, 500, NoState)
    ELSE LET session == failedSession(do.storage.session)
             state == [do.storage EXCEPT !.session = session]
             change(row) == failedRow(row, session)
         IN  Handled(state, updateSession(do.sessions, session.id, change), 200, state)

\* the answers of the object
Answer(op, status, body) == [op |-> op, status |-> status, body |-> body]

\* the object after a request op(arg), with or without a fault of the
\* metadata store, handled as r
Served(op, arg, fault, r) ==
    [agent EXCEPT
       !.ops = @ + 1, !.storage = r.storage, !.sessions = r.sessions,
       !.request = [op |-> op, arg |-> arg, fault |-> fault],
       !.response = Answer(op, r.http, r.body),
       !.lastStart = IF op # "start" THEN @
                     ELSE IF r.http = 200 THEN "succeeded" ELSE "failed",
       !.params = IF op = "start" THEN arg ELSE @,
       !.terminal = IF op = "start" THEN FALSE
                    ELSE IF op \in {"complete", "fail"} /\ r.http = 200 THEN TRUE
                    ELSE @]

\* the bodies of POST /update: every subset of the five fields, with zero
\* counts and an empty step among the values
Updates ==
    [logs_processed : {NoCount, 2}, current_step : {NoStep, "", "ai_analysis"},
     error_count : {NoCount, 0, 5}, warning_count : {NoCount, 2},
     info_count : {NoCount, 1}]

\* the bodies of POST /complete
ResultNoLogs ==
    [summary |-> "No logs found for the specified time range.",
     patterns |-> <<>>, recommendations |-> <<>>]
ResultParsed ==
    [summary |-> "summary", patterns |-> <<"pattern1">>,
     recommendations |-> <<"rec1">>]
Results == {ResultNoLogs, ResultParsed}

AgentStart ==
    /\ \E params \in StartParams, fault \in BOOLEAN :
         agent' = Served("start", params, fault, handleStart(agent, params, fault))
    /\ UNCHANGED <<wf, aq, now, logs, r2, bg, uuids, calls, ret, archiveLog, batch,
                   batchRet, cl, input, level, normalized>>

AgentStatus ==
    /\ agent' = Served("status", NoState, FALSE, handleStatus(agent))
    /\ UNCHANGED <<wf, aq, now, logs, r2, bg, uuids, calls, ret, archiveLog, batch,
                   batchRet, cl, input, level, normalized>>

AgentUpdate ==
    /\ \E update \in Updates :
         agent' = Served("update", update, FALSE, handleUpdate(agent, update))
    /\ UNCHANGED <<wf, aq, now, logs, r2, bg, uuids, calls, ret, archiveLog, batch,
                   batchRet, cl, input, level, normalized>>

AgentComplete ==
    /\ \E result \in Results, fault \in BOOLEAN :
         agent' = Served("complete", result, fault, handleComplete(agent, result, fault))
    /\ UNCHANGED <<wf, aq, now, logs, r2, bg, uuids, calls, ret, archiveLog, batch,
                   batchRet, cl, input, level, normalized>>

AgentFail ==
    /\ \E fault \in BOOLEAN :
         agent' = Served("fail", NoState, fault, handleFail(agent, fault))
    /\ UNCHANGED <<wf, aq, now, logs, r2, bg, uuids, calls, ret, archiveLog, batch,
                   batchRet, cl, input, level, normalized>>

InitAgent == Init

\* fetch(request): the switch over the path, and the clock
NextAgent ==
    \/ agent.ops < MaxAgentOps /\ AgentStart
    \/ agent.ops < MaxAgentOps /\ AgentStatus
    \/ agent.ops < MaxAgentOps /\ AgentUpdate
    \/ agent.ops < MaxAgentOps /\ AgentComplete
    \/ agent.ops < MaxAgentOps /\ AgentFail
    \/ Tick

SpecAgent == InitAgent /\ [][NextAgent]_vars

---------------------------------------------------------------------------
(* Claims about the session actor, under SpecAgent *)

\* the step is a call of status()
StatusCalled == agent'.ops # agent.ops /\ agent'.response.op = "status"

\* C20: on an object on which start was never called, status() answers
\* NotFound and leaves the object without state; when the last start(params)
\* succeeded and the session has not been completed or failed since, status()
\* answers the session with status running and the id, service name and time
\* range of params.
C20_StatusAfterStart ==
    [][StatusCalled =>
         /\ agent.lastStart = "never" =>
               /\ agent'.response.status = 404
               /\ agent'.storage = NoState /\ agent'.sessions = {}
         /\ (agent.lastStart = "succeeded" /\ ~agent.terminal) =>
               /\ agent'.response.status = 200
               /\ agent'.response.body.session.status = "running"
               /\ agent'.response.body.session.id = agent.params.session_id
               /\ agent'.response.body.session.service_name = agent.params.service_name
               /\ agent'.response.body.session.start_time = agent.params.start_time
               /\ agent'.response.body.session.end_time = agent.params.end_time]_vars

\* status() has answered a started and updated session
C20_Witness ==
    /\ agent.response.op = "status" /\ agent.response.status = 200
    /\ agent.lastStart = "succeeded" /\ ~agent.terminal
    /\ agent.response.body.session.service_name = SvcB
    /\ agent.response.body.logs_processed = 2

\* status() has answered NotFound on an object never started
C20_WitnessNotFound ==
    /\ agent.response.op = "status" /\ agent.response.status = 404
    /\ agent.lastStart = "never" /\ agent.ops = 2


\* the terminal statuses of a session
Terminal == {"completed", "failed"}

\* the status of the live copy, and the ids and statuses of the mirror rows
liveStatus(do) == IF do.storage = NoState THEN "none" ELSE do.storage.session.status
mirrorStatus(do) == {<<row.id, row.status>> : row \in do.sessions}

\* the step is a request op handled by the object
Called(op) == agent'.ops # agent.ops /\ agent'.request.op = op

\* C21: once the status of the live copy is completed or failed, no request
\* changes it, and no request changes the status of a mirror row that is
\* completed or failed.
C21_AsStated ==
    [][/\ liveStatus(agent) \in Terminal => liveStatus(agent') = liveStatus(agent)
       /\ \A row \in agent.sessions :
             row.status \in Terminal => <<row.id, row.status>> \in mirrorStatus(agent')]_vars

\* C22: when the live copy is in a terminal status, an update request, with
\* any subset of the updatable fields, leaves the status of the live copy
\* and the statuses of the mirror rows as they were.
C22_UpdateKeepsTerminal ==
    [][(Called("update") /\ liveStatus(agent) \in Terminal) =>
         /\ liveStatus(agent') = liveStatus(agent)
         /\ mirrorStatus(agent') = mirrorStatus(agent)]_vars

\* an update carrying all five fields was accepted on a completed session whose
\* mirror row is completed
C22_Witness ==
    /\ agent.request.op = "update" /\ agent.response.status = 200
    /\ agent.request.arg.logs_processed # NoCount
    /\ agent.request.arg.current_step = "ai_analysis"
    /\ agent.request.arg.error_count # NoCount
    /\ agent.request.arg.warning_count # NoCount
    /\ agent.request.arg.info_count # NoCount
    /\ liveStatus(agent) = "completed"
    /\ mirrorStatus(agent) = {<<SessionId, "completed">>}

\* an update carrying no field was accepted on a failed session
C22_WitnessEmpty ==
    /\ agent.request.op = "update" /\ agent.response.status = 200
    /\ agent.request.arg.logs_processed = NoCount
    /\ agent.request.arg.current_step = NoStep
    /\ agent.request.arg.error_count = NoCount
    /\ agent.request.arg.warning_count = NoCount
    /\ agent.request.arg.info_count = NoCount
    /\ liveStatus(agent) = "failed"

\* the mirror row agrees with the live session: status and completion time,
\* and after complete the counts (an absent count read as 0), the summary and
\* the two lists
Agrees(row, session, op) ==
    /\ row.id = session.id
    /\ row.status = session.status
    /\ row.completed_at = session.completed_at
    /\ op = "complete" =>
          /\ row.error_count = orZero(session.error_count)
          /\ row.warning_count = orZero(session.warning_count)
          /\ row.info_count = orZero(session.info_count)
          /\ row.summary = session.summary
          /\ row.patterns_json = session.patterns
          /\ row.recommendations_json = session.recommendations

\* C23: when complete or fail has answered success, analysis_sessions holds a
\* row of the session id that agrees with the live copy.
C23_AsStated ==
    [][\A op \in {"complete", "fail"} :
         (Called(op) /\ agent'.response.status = 200) =>
            \E row \in agent'.sessions :
               Agrees(row, agent'.storage.session, op)]_vars

\* the fields of a stored state that update never writes
Untouched(state) ==
    [state EXCEPT !.logs_processed = 0, !.current_step = "",
                  !.session.error_count = 0, !.session.warning_count = 0,
                  !.session.info_count = 0]

\* C24: an update request on a started object answers success, gives the
\* numeric fields present in the request and a non-empty current_step their
\* new values, leaves the fields absent from the request and every other
\* field of the live state as they were, and leaves analysis_sessions as it
\* was; on an object never started it answers NotFound and stores nothing.
C24_UpdateFrame ==
    [][Called("update") =>
         LET u == agent'.request.arg
             s == agent.storage
             t == agent'.storage
         IN  /\ agent'.sessions = agent.sessions
             /\ s = NoState => (t = NoState /\ agent'.response.status = 404)
             /\ s # NoState =>
                  /\ agent'.response.status = 200
                  /\ Untouched(t) = Untouched(s)
                  /\ t.logs_processed =
                        IF u.logs_processed = NoCount THEN s.logs_processed
                        ELSE u.logs_processed
                  /\ t.session.error_count =
                        IF u.error_count = NoCount THEN s.session.error_count
                        ELSE u.error_count
                  /\ t.session.warning_count =
                        IF u.warning_count = NoCount THEN s.session.warning_count
                        ELSE u.warning_count
                  /\ t.session.info_count =
                        IF u.info_count = NoCount THEN s.session.info_count
                        ELSE u.info_count
                  /\ u.current_step = NoStep => t.current_step = s.current_step
                  /\ u.current_step \notin {NoStep, ""} =>
                        t.current_step = u.current_step]_vars

\* an update carrying only error_count was merged into a session that had
\* counts and processed logs from an earlier update
C24_Witness ==
    /\ agent.request.op = "update" /\ agent.response.status = 200
    /\ agent.request.arg = [logs_processed |-> NoCount, current_step |-> NoStep,
                            error_count |-> 0, warning_count |-> NoCount,
                            info_count |-> NoCount]
    /\ agent.storage.session.error_count = 0
    /\ agent.storage.session.warning_count = 2
    /\ agent.storage.logs_processed = 2
    /\ agent.storage.current_step = "ai_analysis"
    /\ agent.sessions # {}

\* an update was answered NotFound by an object never started
C24_WitnessNotFound ==
    /\ agent.request.op = "update" /\ agent.response.status = 404
    /\ agent.lastStart = "never" /\ agent.storage = NoState /\ agent.sessions = {}

\* a stored state and a set of rows with their timestamps set aside
timelessState(state) ==
    IF state = NoState THEN state
    ELSE [state EXCEPT !.started_at = 0, !.session.created_at = 0,
                       !.session.completed_at = 0]
timelessRows(rows) ==
    {[row EXCEPT !.created_at = 0, !.completed_at = 0] : row \in rows}

\* the step repeats the request before it, which had answered success, and
\* the metadata store works
Replayed ==
    /\ agent'.ops # agent.ops
    /\ agent'.request = agent.request
    /\ ~agent'.request.fault
    /\ agent.response.status = 200

\* C25: with the metadata store working, a request that repeats the
\* successful request before it (start, update, complete or fail with the
\* same arguments) answers success and
\* leaves the live state and analysis_sessions, timestamps aside, as they were.
C25_AsStated ==
    [][Replayed =>
         /\ agent'.response.status = 200
         /\ timelessState(agent'.storage) = timelessState(agent.storage)
         /\ timelessRows(agent'.sessions) = timelessRows(agent.sessions)]_vars


---------------------------------------------------------------------------
(* runAnalysisWorkflow: start, fetch, progress, counts, inference, complete *)

\* the messages of the exceptions a run can meet
ErrInit == "Failed to initialize analysis session"
ErrUnreachable == "Durable Object unreachable"
ErrStore == "D1_ERROR"

\* searchLogs with the upper end of the range left out
searchLogs_Exclusive(table, params, limit) ==
    LET M == {row \in table : /\ row.service_name = params.service_name
                               /\ row.timestamp >= params.start_time
                               /\ row.timestamp < params.end_time}
    IN  IF Cardinality(M) <= limit THEN M
        ELSE CHOOSE S \in SUBSET M :
                /\ Cardinality(S) = limit
                /\ \A r \in S, q \in M \ S : r.timestamp >= q.timestamp

\* searchLogs with service_name, start_time, end_time and limit: the rows of
\* the service inside the range, both ends included, the newest first and
\* no more than limit of them (the order is not kept: the run counts them)
searchLogs(table, params, limit) ==
    LET M == {row \in table : /\ row.service_name = params.service_name
                               /\ row.timestamp >= params.start_time
                               /\ row.timestamp <= params.end_time}
    IN  IF Cardinality(M) <= limit THEN M
        ELSE CHOOSE S \in SUBSET M :
                /\ Cardinality(S) = limit
                /\ \A r \in S, q \in M \ S : r.timestamp >= q.timestamp

\* logs.filter((l) => l.level === lvl).length
countLevel(rows, lvl) == Cardinality({l \in rows : l.level = lvl})

\* counts that take every row that is not an error for a warning
countByLevel_Coarse(rows) ==
    [error_count |-> countLevel(rows, ERROR),
     warning_count |-> Cardinality(rows) - countLevel(rows, ERROR),
     info_count |-> countLevel(rows, INFO)]

\* lines 59-61: the three counts of the fetched rows
countByLevel(rows) ==
    [error_count |-> countLevel(rows, ERROR),
     warning_count |-> countLevel(rows, WARN),
     info_count |-> countLevel(rows, INFO)]

\* the first update sent with the step alone, logs_processed left out
progressUpdate_StepOnly(rows) ==
    [logs_processed |-> NoCount, current_step |-> "counting_by_level",
     error_count |-> NoCount, warning_count |-> NoCount, info_count |-> NoCount]

\* the request bodies of the two progress updates
progressUpdate(rows) ==
    [logs_processed |-> Cardinality(rows), current_step |-> "counting_by_level",
     error_count |-> NoCount, warning_count |-> NoCount, info_count |-> NoCount]
countsUpdate(counts) ==
    [logs_processed |-> NoCount, current_step |-> "ai_analysis",
     error_count |-> counts.error_count, warning_count |-> counts.warning_count,
     info_count |-> counts.info_count]

\* .slice(0, 50) and .slice(0, 30): the sizes of the sample
sampleSize(n, cap) == IF n < cap THEN n ELSE cap

\* lines 172-176: the summary put together from the numbers of fetched rows
\* and of sampled errors and warnings
synthesized(rows) ==
    [summary |-> "Analysis completed for " \o ToString(Cardinality(rows))
                 \o " logs. "
                 \o ToString(sampleSize(countLevel(rows, ERROR), ErrorSampleSize))
                 \o " errors and "
                 \o ToString(sampleSize(countLevel(rows, WARN), WarningSampleSize))
                 \o " warnings found.",
     patterns |-> <<"AI analysis unavailable">>,
     recommendations |-> <<"Manual review recommended">>]

\* what env.AI.run can do: raise, answer nothing, or answer a text.  A text
\* is described by what parseAIResponse looks at: whether it holds a {...}
\* span, whether that span is JSON, and the summary, patterns and
\* recommendations of the parsed object (a list, or NotArray); head is its
\* first 300 characters
NotArray == <<"not an array">>
AiText(braces, json, summary, patterns, recommendations) ==
    [kind |-> "text", braces |-> braces, json |-> json,
     head |-> "Here is my analysis of the logs", summary |-> summary,
     patterns |-> patterns, recommendations |-> recommendations]
AiThrows == [kind |-> "throws"]
AiNothing == [kind |-> "nothing"]
AiWellFormed == AiText(TRUE, TRUE, "summary", <<"pattern1">>, <<"rec1">>)
AiNoJson == AiText(FALSE, FALSE, NoSummary, NotArray, NotArray)
AiBadJson == AiText(TRUE, FALSE, NoSummary, NotArray, NotArray)
AiOtherObject == AiText(TRUE, TRUE, NoSummary, NotArray, <<"rec1">>)
AiOutcomes == {AiThrows, AiNothing, AiWellFormed, AiNoJson, AiBadJson, AiOtherObject}

\* parseAIResponse
parseAIResponse(text) ==
    IF ~text.braces
    THEN [summary |-> text.head, patterns |-> <<>>, recommendations |-> <<>>]
    ELSE IF ~text.json
    THEN [summary |-> "Analysis completed but response parsing failed",
          patterns |-> <<>>, recommendations |-> <<>>]
    ELSE [summary |-> IF text.summary \in {NoSummary, ""}
                      THEN "Analysis completed" ELSE text.summary,
          patterns |-> IF text.patterns = NotArray THEN <<>> ELSE text.patterns,
          recommendations |-> IF text.recommendations = NotArray THEN <<>>
                              ELSE text.recommendations]

\* analyzeLogsWithAI without the test for an empty fetch
analyzeLogsWithAI_NoEmptyCase(rows, ai) ==
    IF ai.kind \in {"throws", "nothing"} THEN synthesized(rows)
    ELSE parseAIResponse(ai)

\* analyzeLogsWithAI: no inference on an empty fetch; the synthesized result
\* when the inference raises or answers nothing; the parsed text otherwise
analyzeLogsWithAI(rows, ai) ==
    IF rows = {} THEN ResultNoLogs
    ELSE IF ai.kind \in {"throws", "nothing"} THEN synthesized(rows)
    ELSE parseAIResponse(ai)

\* how a call of the object can go: handled, handled with a fault of the
\* metadata store inside the handler, or not reaching the object (fetch raises)
ActorCalls == {"ok", "fault", "unreachable"}

\* an exception at a step: control goes to the catch at line 99
\* doStub.fetch(path, {body}): the call is made; it reaches the object or not,
\* and the store may fail under the handler
sending(run, op, arg, reached, fault) ==
    [run EXCEPT !.sent = Append(@, [op |-> op, arg |-> arg, reached |-> reached,
                                    fault |-> fault])]

raise(run, step, message) ==
    [run EXCEPT !.pc = "catch", !.error = message, !.raisedAt = step]

\* the failure of the fail call leaving the run
afterFailFailure_Rethrow == "raised"

\* lines 112-114: a failing fail call is logged and the run returns
afterFailFailure == "returned"

\* lines 90-98 and 116-122: the two results of a run
successResult(run) ==
    [success |-> TRUE, session_id |-> run.params.session_id,
     error_count |-> run.counts.error_count,
     warning_count |-> run.counts.warning_count,
     summary |-> run.analysis.summary, error |-> NoError]
failureResult(run) ==
    [success |-> FALSE, session_id |-> run.params.session_id,
     error_count |-> 0, warning_count |-> 0,
     summary |-> NoSummary, error |-> run.error]

\* a run begins with the parameters the consumer hands over
WorkflowBegin ==
    /\ wf.pc \in {"idle", "done"}
    /\ wf.runs < MaxWorkflowRuns
    /\ \E params \in StartParams :
         wf' = [NoWorkflow EXCEPT !.pc = "start", !.runs = wf.runs + 1,
                                  !.params = params]
    /\ UNCHANGED <<aq, agent, now, logs, r2, bg, uuids, calls, ret, archiveLog, batch,
                   batchRet, cl, input, level, normalized>>

\* lines 26-37: POST /start; a response that is not ok raises
WorkflowStart ==
    /\ wf.pc = "start"
    /\ \E call \in ActorCalls :
         IF call = "unreachable"
         THEN /\ wf' = raise(sending(wf, "start", wf.params, FALSE, FALSE), "start",
                              ErrUnreachable)
              /\ agent' = agent
         ELSE LET r == handleStart(agent, wf.params, call = "fault")
                  run == sending(wf, "start", wf.params, TRUE, call = "fault")
              IN  /\ agent' = Served("start", wf.params, call = "fault", r)
                  /\ wf' = IF r.http = 200 THEN [run EXCEPT !.pc = "fetch"]
                           ELSE raise(run, "start", ErrInit)
    /\ UNCHANGED <<aq, now, logs, r2, bg, uuids, calls, ret, archiveLog, batch,
                   batchRet, cl, input, level, normalized>>

\* lines 39-46: searchLogs with limit 1000
WorkflowFetch ==
    /\ wf.pc = "fetch"
    /\ \E fault \in BOOLEAN :
         wf' = IF fault THEN raise(wf, "fetch", ErrStore)
               ELSE [wf EXCEPT !.pc = "progress", !.fetched = TRUE,
                               !.logs = searchLogs(logs, wf.params, FetchLimit)]
    /\ UNCHANGED <<aq, agent, now, logs, r2, bg, uuids, calls, ret, archiveLog, batch,
                   batchRet, cl, input, level, normalized>>

\* lines 48-56: POST /update with logs_processed; the response is not read
WorkflowProgress ==
    /\ wf.pc = "progress"
    /\ \E call \in {"ok", "unreachable"} :
         LET update == progressUpdate(wf.logs)
         IN  IF call = "unreachable"
             THEN /\ wf' = raise(sending(wf, "update", update, FALSE, FALSE), "progress",
                                 ErrUnreachable)
                  /\ agent' = agent
             ELSE /\ agent' = Served("update", update, FALSE, handleUpdate(agent, update))
                  /\ wf' = [sending(wf, "update", update, TRUE, FALSE) EXCEPT !.pc = "counts"]
    /\ UNCHANGED <<aq, now, logs, r2, bg, uuids, calls, ret, archiveLog, batch,
                   batchRet, cl, input, level, normalized>>

\* lines 58-72: the counts by level and POST /update with them
WorkflowCounts ==
    /\ wf.pc = "counts"
    /\ \E call \in {"ok", "unreachable"} :
         LET counts == countByLevel(wf.logs)
             update == countsUpdate(counts)
         IN  IF call = "unreachable"
             THEN /\ wf' = raise([sending(wf, "update", update, FALSE, FALSE)
                                    EXCEPT !.counts = counts], "counts", ErrUnreachable)
                  /\ agent' = agent
             ELSE /\ agent' = Served("update", update, FALSE, handleUpdate(agent, update))
                  /\ wf' = [sending(wf, "update", update, TRUE, FALSE)
                               EXCEPT !.pc = "analyze", !.counts = counts]
    /\ UNCHANGED <<aq, now, logs, r2, bg, uuids, calls, ret, archiveLog, batch,
                   batchRet, cl, input, level, normalized>>

\* lines 74-81: analyzeLogsWithAI, which catches what the inference raises
WorkflowAnalyze ==
    /\ wf.pc = "analyze"
    /\ \E ai \in AiOutcomes :
         wf' = [wf EXCEPT !.pc = "complete",
                          !.ai = IF wf.logs = {} THEN [kind |-> "not called"] ELSE ai,
                          !.analysis = analyzeLogsWithAI(wf.logs, ai)]
    /\ UNCHANGED <<aq, agent, now, logs, r2, bg, uuids, calls, ret, archiveLog, batch,
                   batchRet, cl, input, level, normalized>>

\* lines 83-98: POST /complete; the response is not read and the run
\* returns success
WorkflowComplete ==
    /\ wf.pc = "complete"
    /\ \E call \in ActorCalls :
         IF call = "unreachable"
         THEN /\ wf' = raise(sending(wf, "complete", wf.analysis, FALSE, FALSE), "complete",
                              ErrUnreachable)
              /\ agent' = agent
         ELSE LET r == handleComplete(agent, wf.analysis, call = "fault")
              IN  /\ agent' = Served("complete", wf.analysis, call = "fault", r)
                  /\ wf' = [sending(wf, "complete", wf.analysis, TRUE, call = "fault") EXCEPT
                                      !.pc = "done", !.completeCall = r.http,
                                      !.outcome = "returned",
                                      !.result = successResult(wf)]
    /\ UNCHANGED <<aq, now, logs, r2, bg, uuids, calls, ret, archiveLog, batch,
                   batchRet, cl, input, level, normalized>>

\* lines 99-123: the catch: POST /fail inside its own try, then the failure
\* result
WorkflowCatch ==
    /\ wf.pc = "catch"
    /\ \E call \in ActorCalls :
         IF call = "unreachable"
         THEN /\ agent' = agent
              /\ wf' = [sending(wf, "fail", [error |-> wf.error], FALSE, FALSE) EXCEPT
                                  !.pc = "done", !.failCall = "unreachable",
                                  !.outcome = afterFailFailure,
                                  !.result = failureResult(wf)]
         ELSE LET r == handleFail(agent, call = "fault")
              IN  /\ agent' = Served("fail", NoState, call = "fault", r)
                  /\ wf' = [sending(wf, "fail", [error |-> wf.error], TRUE, call = "fault") EXCEPT
                                      !.pc = "done",
                                      !.failCall = IF r.http = 200 THEN "ok" ELSE "error",
                                      !.outcome = "returned",
                                      !.result = failureResult(wf)]
    /\ UNCHANGED <<aq, now, logs, r2, bg, uuids, calls, ret, archiveLog, batch,
                   batchRet, cl, input, level, normalized>>

\* a stored row of a service with a level and a timestamp
analysisRow(id, service_name, lvl, timestamp) ==
    rowOf(prepare(LogEntry(id, service_name, lvl, MsgShort, timestamp, NoMetadata),
                  0).logEntry)

\* rows of SvcA inside the range of its analysis (both ends among them):
\* five errors, two warnings, an info and a debug row
RangeA ==
    {analysisRow("e" \o ToString(k), SvcA, ERROR, Now0 - k) : k \in 0..4}
    \cup {analysisRow("w1", SvcA, WARN, Now0 - DayMs),
          analysisRow("w2", SvcA, <<"w","a","r","n">>, Now0 - 7)}
    \cup {analysisRow("i1", SvcA, INFO, Now0 - 8),
          analysisRow("d1", SvcA, DEBUG, Now0 - 9)}

\* rows outside it: before the range, and of another service
OutsideA ==
    {analysisRow("o1", SvcA, ERROR, Now0 - DayMs - 1),
     analysisRow("b1", SvcB, ERROR, Now0 - DayMs),
     analysisRow("b2", SvcB, WARN, Now0 - 2 * DayMs),
     analysisRow("b3", SvcB, INFO, Now0 - DayMs + 1)}

\* the stores a run may find: empty, only rows outside the range of SvcA,
\* and the full store
AnalysisStores ==
    {{}, OutsideA, RangeA \cup OutsideA,
     {row \in RangeA : row.level # ERROR} \cup OutsideA}

InitWorkflow ==
    /\ now = Now0
    /\ logs \in AnalysisStores
    /\ r2 = <<>>
    /\ bg = {}
    /\ uuids = 0
    /\ calls = 0
    /\ ret = NoRet
    /\ archiveLog = {}
    /\ batch = NoBatch
    /\ batchRet = NoBatchRet
    /\ cl = NoCleanup
    /\ input = RecANow
    /\ level = <<>>
    /\ normalized = Undefined
    /\ aq = NoQueue
    /\ agent = NoAgent
    /\ wf = NoWorkflow

NextWorkflow ==
    \/ WorkflowBegin
    \/ WorkflowStart
    \/ WorkflowFetch
    \/ WorkflowProgress
    \/ WorkflowCounts
    \/ WorkflowAnalyze
    \/ WorkflowComplete
    \/ WorkflowCatch
    \/ Tick

SpecWorkflow == InitWorkflow /\ [][NextWorkflow]_vars


---------------------------------------------------------------------------
(* Claims about the workflow run, under SpecWorkflow *)

\* C26: a run never raises.  When a step raises (the object cannot be
\* reached at start, update or complete, start is answered with an error,
\* the log fetch fails) control is in the catch or past it, and the finished
\* run has called fail on the object and returned success = false with the
\* message of the exception, also when the fail call itself failed.  An
\* error answer to update or complete does not raise in the run.
C26_WorkflowNeverRaises ==
    /\ wf.raisedAt # "none" => wf.pc \in {"catch", "done"}
    /\ wf.pc = "done" =>
          /\ wf.outcome = "returned"
          /\ wf.result.session_id = wf.params.session_id
          /\ wf.result.success <=> wf.raisedAt = "none"
          /\ wf.raisedAt # "none" =>
                /\ wf.failCall \in {"ok", "error", "unreachable"}
                /\ wf.result.error = wf.error
                /\ wf.raisedAt = "fetch" <=> wf.result.error = ErrStore
                /\ wf.result.error \in {ErrInit, ErrUnreachable, ErrStore}

\* the log fetch failed and the fail call did not reach the object: the run
\* returned the failure
C26_Witness ==
    /\ wf.pc = "done" /\ wf.raisedAt = "fetch" /\ wf.failCall = "unreachable"
    /\ ~wf.result.success /\ wf.result.error = ErrStore

\* the complete call did not reach the object and fail was answered with an
\* error
C26_WitnessComplete ==
    /\ wf.pc = "done" /\ wf.raisedAt = "complete" /\ wf.failCall = "error"
    /\ ~wf.result.success

\* the rows of the service of params inside its range, ends included
Matching(table, params) ==
    {row \in table : /\ row.service_name = params.service_name
                      /\ params.start_time <= row.timestamp
                      /\ row.timestamp <= params.end_time}

\* the number of rows of a level among rows
OfLevel(rows, lvl) == Cardinality({row \in rows : row.level = lvl})

\* the run has returned success and left the session completed
RunCompletedSession ==
    /\ wf.pc = "done" /\ wf.result.success
    /\ liveStatus(agent) = "completed"

Untroubled == wf.raisedAt = "none" /\ wf.completeCall = 200

InferenceUnusable ==
    \/ wf.ai.kind \in {"throws", "nothing"}
    \/ /\ wf.ai.kind = "text"
       /\ \/ ~wf.ai.braces
          \/ ~wf.ai.json
          \/ wf.ai.summary = NoSummary
          \/ wf.ai.patterns = NotArray
          \/ wf.ai.recommendations = NotArray

\* the summary made of the three numbers a run has: rows fetched, errors
\* and warnings
FromCounts(n, e, w) ==
    "Analysis completed for " \o ToString(n) \o " logs. " \o ToString(e)
    \o " errors and " \o ToString(w) \o " warnings found."

\* C29: when the inference was unusable the run goes on with the summary
\* synthesized from the counts, calls complete with it and returns success.
C29_AsStated ==
    (InferenceUnusable /\ wf.pc \in {"complete", "done"} /\ wf.raisedAt = "none") =>
       /\ wf.analysis.summary =
             FromCounts(Cardinality(wf.logs), wf.counts.error_count,
                        wf.counts.warning_count)
       /\ wf.pc = "done" =>
             /\ wf.result.success
             /\ wf.result.summary = wf.analysis.summary


---------------------------------------------------------------------------
(* One analysis request from POST /analyze to its session: the queue       *)
(* consumer running runAnalysisWorkflow on the durable object of the id    *)

\* lines 52-58 of processAnalysisMessage: the parameters made of the message
workflowParams(id) ==
    [session_id |-> id, service_name |-> SvcA,
     start_time |-> Now0 - DayMs, end_time |-> Now0]

\* line 60: runAnalysisWorkflow is called for the message in hand
AnalysisRun ==
    /\ aq.con.pc = "workflow" /\ aq.con.wf = "none"
    /\ aq' = [aq EXCEPT !.con.wf = "running"]
    /\ wf' = [NoWorkflow EXCEPT !.pc = "start", !.runs = wf.runs + 1,
                                !.params = workflowParams(aq.con.batch[aq.con.i])]
    /\ UNCHANGED <<agent, now, logs, r2, bg, uuids, calls, ret, archiveLog, batch,
                   batchRet, cl, input, level, normalized>>

\* lines 60-75: the run has returned; success goes on to the UPDATE to
\* completed, failure raises result.error
AnalysisReturn ==
    /\ aq.con.pc = "workflow" /\ aq.con.wf = "running" /\ wf.pc = "done"
    /\ aq' = IF wf.result.success
             THEN [aq EXCEPT !.con.pc = "complete", !.con.wf = "success"]
             ELSE [aq EXCEPT !.con.pc = "fail", !.con.wf = "failure",
                             !.con.error = IF wf.result.error = NoError
                                           THEN ErrAnalysisFailed
                                           ELSE wf.result.error]
    /\ UNCHANGED <<wf, agent, now, logs, r2, bg, uuids, calls, ret, archiveLog, batch,
                   batchRet, cl, input, level, normalized>>

InitAnalysis == InitWorkflow

NextAnalysis ==
    \/ aq.enq = {} /\ EnqueueSend
    \/ EnqueueInsert
    \/ Deliver
    \/ ConsumeBegin
    \/ AnalysisRun
    \/ WorkflowStart
    \/ WorkflowFetch
    \/ WorkflowProgress
    \/ WorkflowCounts
    \/ WorkflowAnalyze
    \/ WorkflowComplete
    \/ WorkflowCatch
    \/ AnalysisReturn
    \/ ConsumeComplete
    \/ ConsumeFail

\* the queue delivers what is pending and every step that can be taken is
\* taken: handlers and runs return
SpecAnalysis == InitAnalysis /\ [][NextAnalysis]_vars /\ WF_vars(NextAnalysis)

---------------------------------------------------------------------------
(* Claims about a request and its session, under SpecAnalysis *)

\* the message of the request was delivered and acknowledged: the queue will
\* not deliver it again
Acknowledged == \E a \in Attempts : a.signals = <<"ack">>

\* the session record shows a terminal status, in the live copy or in the
\* mirror row
SessionTerminal ==
    \/ liveStatus(agent) \in Terminal
    \/ \E row \in agent.sessions : row.status \in Terminal

\* C30: a request whose message was delivered has, in the end, a session
\* record in a terminal status; in particular once its message is
\* acknowledged, after which nothing is left to run for it, the session is
\* or becomes completed or failed and does not stay running.
C30_AsStated == Acknowledged ~> SessionTerminal

---------------------------------------------------------------------------
(* Claims about the archive store, under Spec: ingestion, the detached
   archive writes and cleanup interleaved *)

\* the archive tasks that have completed their put for a record id
ArchiveWrites(id) ==
    {e.task : e \in {x \in archiveLog : x.id = id /\ x.put = "ok"}}
        \cup {t.task : t \in {x \in bg : x.log.id = id /\ x.pc = "update"}}

\* the keys of the archive objects of a record id
ArchiveObjects(id) == {k \in DOMAIN r2 : k[3] = id}

\* the record ids the archive tasks and the archive store have seen
ArchivedIds ==
    {e.id : e \in archiveLog} \cup {t.log.id : t \in bg} \cup {k[3] : k \in DOMAIN r2}

\* every archive object is stored under the service name, the UTC day of the
\* timestamp and the id of the record it holds
KeyedByRecord ==
    \A k \in DOMAIN r2 :
        k = <<r2[k].gzip.service_name, r2[k].gzip.timestamp \div DayMs, r2[k].gzip.id>>

\* C31 as stated: the archive key of a record is a function of its service
\* name, the UTC date of its timestamp and its id; the archive store holds at
\* most one object for a record id, and ingestion writes the archive store at
\* most once per record id.
C31_AsStated ==
    /\ KeyedByRecord
    /\ \A id \in ArchivedIds :
          /\ Cardinality(ArchiveObjects(id)) <= 1
          /\ Cardinality(ArchiveWrites(id)) <= 1

\* C31 amended: the archive key of a record is a function of its service
\* name, the UTC date of its timestamp and its id; and for a record id of
\* which cleanup has removed no metadata row, the archive store holds at most
\* one object and ingestion has written the archive store at most once.
C31_OneWritePerRow ==
    /\ KeyedByRecord
    /\ \A id \in ArchivedIds :
          (\A k \in cl.removed : k[3] # id) =>
             /\ Cardinality(ArchiveObjects(id)) <= 1
             /\ Cardinality(ArchiveWrites(id)) <= 1

\* the record with id "a" was archived, a second submission of that id was
\* refused, and the archive holds the one object of the first
C31_Witness ==
    /\ ret.n = 2 /\ ret.status = "rejected"
    /\ ret.error = "UNIQUE constraint failed: logs.id"
    /\ Cardinality(ArchiveWrites("a")) = 1
    /\ Cardinality(ArchiveObjects("a")) = 1
    /\ cl.removed = {}


\* C37 as stated: once cleanup has removed the metadata row of a record and no
\* archive delete has failed, the archive store holds no object for that
\* record, whatever the interleaving of cleanup with the record's detached
\* archive write (the record has not been submitted again since).
C37_AsStated ==
    ~cl.r2Errors =>
        \A k \in cl.removed :
            (\A row \in logs : row.id # k[3]) => k \notin DOMAIN r2


\* the archive tasks of a record that completed their put: the record of a row
\* is the submitted entry the row was bound from
PutCompletedFor(row) ==
    \/ \E t \in bg : t.pc = "update" /\ rowOf(t.log) = [row EXCEPT !.r2_key = NoKey]
    \/ \E t \in archiveLog :
          /\ t.put = "ok" /\ t.id = row.id
          /\ t.key = <<row.service_name, row.timestamp \div DayMs, row.id>>

\* C38 as stated: in every reachable state, a metadata row written by ingest
\* has a non-null archive reference only if an archive put for that same
\* record completed successfully beforehand, and the reference equals the key
\* logs/{service}/{UTC date}/{id}.json.gz of that record.
C38_AsStated ==
    \A row \in logs :
        row.r2_key # NoKey =>
            /\ row.r2_key = <<row.service_name, row.timestamp \div DayMs, row.id>>
            /\ PutCompletedFor(row)


---------------------------------------------------------------------------
(* A claim about the primary key of table logs, under SpecInput *)

\* C39: the metadata store never holds two rows with the same id; an ingest
\* call of a record whose caller-supplied id already has a row fails, leaves
\* the table (the existing row included) as it was, creates no archive task
\* and writes no archive object.
C39_DuplicateIdRejected ==
    [][/\ \A x, y \in logs' : x.id = y.id => x = y
       /\ (Returns /\ input.id # NoId /\ \E row \in logs : row.id = input.id) =>
             /\ ret'.status = "rejected" /\ ret'.id = NoId
             /\ logs' = logs
             /\ bg' = bg
             /\ r2' = r2]_vars

\* the record with id "a" and no timestamp was stored and archived at Now0; a
\* later second submission of it was refused, and the row and the object
\* still carry the first timestamp
C39_Witness ==
    /\ input.id = "a" /\ input.timestamp = NoTimestamp
    /\ ret.n = 2 /\ ret.at > Now0 /\ ret.status = "rejected"
    /\ ret.error = "UNIQUE constraint failed: logs.id"
    /\ \E row \in logs : row.id = "a" /\ row.timestamp = Now0
    /\ \E k \in DOMAIN r2 : k[3] = "a" /\ r2[k].gzip.timestamp = Now0
    /\ bg = {}


---------------------------------------------------------------------------
(* Claims about the time range and the outcome of a run, under SpecWorkflow *)

\* the rows of the service of params from start_time up to, not including,
\* end_time
MatchingHalfOpen(table, params) ==
    {row \in table : /\ row.service_name = params.service_name
                      /\ params.start_time <= row.timestamp
                      /\ row.timestamp < params.end_time}

---------------------------------------------------------------------------
(* A claim about a session that has ended, under SpecAgent *)

\* C33 as stated: after the session has reached completed or failed, an
\* update, complete or fail request leaves every field of the live session
\* (status, counts, summary, patterns, recommendations, completion timestamp)
\* and every mirror row as they were.
C33_AsStated ==
    [][(/\ liveStatus(agent) \in Terminal
        /\ Called("update") \/ Called("complete") \/ Called("fail")) =>
          /\ agent'.storage.session = agent.storage.session
          /\ agent'.sessions = agent.sessions]_vars


---------------------------------------------------------------------------
(* Claims about the result and the calls of a run, under SpecWorkflow *)

\* C34 as stated: whenever a run returns success = true, the status of the
\* live session and the status of its mirror row are both completed, and the
\* complete call (like the start and update calls before it) was not
\* answered with an error.
C34_AsStated ==
    (wf.pc = "done" /\ wf.result.success) =>
       /\ liveStatus(agent) = "completed"
       /\ \E row \in agent.sessions :
             row.id = wf.params.session_id /\ row.status = "completed"
       /\ wf.completeCall = 200


\* the calls of the run that reached the durable object, by position in sent
Received == {i \in DOMAIN wf.sent : wf.sent[i].reached}

\* the update carrying logs_processed, and the update carrying the counts
IsProgressCall(c) == c.op = "update" /\ c.arg.logs_processed # NoCount
IsCountsCall(c) == c.op = "update" /\ c.arg.error_count # NoCount

\* the order of the calls after start: the logs_processed update before the
\* counts update; complete after both updates and with the analysis result;
\* fail only after a step raised and never after a complete call that
\* returned
OrderAfterStart ==
    LET s == wf.sent
    IN  /\ \A j \in DOMAIN s :
              IsCountsCall(s[j]) => \E i \in 1..(j - 1) : IsProgressCall(s[i])
        /\ \A i, j \in DOMAIN s :
              (IsProgressCall(s[i]) /\ IsCountsCall(s[j])) => i < j
        /\ \A k \in DOMAIN s :
              s[k].op = "complete" =>
                 /\ \E i \in 1..(k - 1) : IsProgressCall(s[i])
                 /\ \E j \in 1..(k - 1) : IsCountsCall(s[j])
                 /\ s[k].arg # NoState /\ s[k].arg = wf.analysis
        /\ \A k \in DOMAIN s :
              s[k].op = "fail" =>
                 /\ wf.raisedAt # "none"
                 /\ k = Len(s)
                 /\ \A i \in 1..(k - 1) : ~(s[i].op = "complete" /\ s[i].reached)

\* C36 as stated: in a run the durable object receives start before every
\* other call, the logs_processed update before the counts update, and
\* complete only after both updates and after the analysis result exists;
\* fail is sent only after an earlier step raised, and never after a complete
\* call that returned.
C36_AsStated ==
    /\ \A i \in Received :
          wf.sent[i].op # "start" =>
             \E j \in Received : j < i /\ wf.sent[j].op = "start"
    /\ OrderAfterStart

\* C36 amended: in a run the first call made is start and no other call is
\* start; update and complete calls are made only after start has reached
\* the object (a fail call may reach an object that the start call did not
\* reach); the logs_processed update comes before the counts update, and
\* complete only after both updates and after the analysis result exists;
\* fail is sent only after an earlier step raised, and never after a complete
\* call that returned.
C36_CallOrder ==
    /\ \A i \in DOMAIN wf.sent : wf.sent[i].op = "start" <=> i = 1
    /\ \A i \in DOMAIN wf.sent :
          wf.sent[i].op \in {"update", "complete"} => wf.sent[1].reached
    /\ OrderAfterStart

\* a run made its four calls in order, each reaching the object, and returned
C36_Witness ==
    /\ wf.pc = "done" /\ Len(wf.sent) = 4 /\ Received = 1..4
    /\ wf.sent[1].op = "start"
    /\ IsProgressCall(wf.sent[2]) /\ IsCountsCall(wf.sent[3])
    /\ wf.sent[4].op = "complete" /\ wf.sent[4].arg.summary # NoSummary

\* the complete call did not reach the object and the run sent fail, its
\* fifth call
C36_WitnessFail ==
    /\ wf.pc = "done" /\ Len(wf.sent) = 5
    /\ wf.sent[4].op = "complete" /\ ~wf.sent[4].reached
    /\ wf.sent[5].op = "fail" /\ wf.sent[5].reached


---------------------------------------------------------------------------
(* Claims about redelivery, under SpecAnalysis *)

\* the run that has returned met no fault: every call reached the object, no
\* store operation failed under a handler, and the log fetch worked
RunMetNoFault ==
    /\ wf.pc = "done" /\ wf.raisedAt # "fetch"
    /\ \A i \in DOMAIN wf.sent : wf.sent[i].reached /\ ~wf.sent[i].fault

\* the attempt is the latest one, of a redelivery, its run has returned, and
\* neither the run nor the consumer's own updates met a fault
FaultlessRedelivery(a) ==
    /\ aq.att # <<>> /\ a = aq.att[Len(aq.att)]
    /\ a.delivery >= 2
    /\ aq.con.wf = "none" /\ wf.runs >= 2
    /\ RunMetNoFault
    /\ a.marked # "none" /\ a.raised = "none"

\* an earlier attempt for the message failed in its workflow run after the
\* session had been started (its mirror row is there)
FailedAfterStart(a) ==
    /\ \E b \in Attempts :
          b.id = a.id /\ b.delivery < a.delivery /\ b.wf = "failure"
    /\ \E row \in agent.sessions : row.id = a.id

\* C35 as stated: when a workflow attempt for a message failed after the
\* session was started and the queue redelivers the message, a later attempt
\* that meets no fault completes the session: the live session and the
\* mirror row are completed, the tracking row is completed and the message
\* is acknowledged.
C35_AsStated ==
    \A a \in Attempts :
        (FaultlessRedelivery(a) /\ FailedAfterStart(a)) =>
            /\ a.signals = <<"ack">>
            /\ a.status = "completed"
            /\ liveStatus(agent) = "completed"
            /\ \E row \in agent.sessions : row.id = a.id /\ row.status = "completed"


---------------------------------------------------------------------------
(* The consumer with a workflow run that may never return *)

\* line 60: await runAnalysisWorkflow(...) on a run that does not return (no
\* call of the run carries a timeout); the handler stays at the await
ConsumeHang ==
    /\ aq.con.pc = "workflow" /\ aq.con.wf = "none"
    /\ aq' = [aq EXCEPT !.con.wf = "hung"]
    /\ UNCHANGED <<wf, agent, now, logs, r2, bg, uuids, calls, ret, archiveLog, batch,
                   batchRet, cl, input, level, normalized>>

\* a run that has not hung returns
ConsumeReturn == aq.con.wf # "hung" /\ ConsumeWorkflow

InitConsumer == Init

NextConsumer ==
    \/ EnqueueSend
    \/ EnqueueInsert
    \/ Deliver
    \/ ConsumeBegin
    \/ ConsumeReturn
    \/ ConsumeHang
    \/ ConsumeComplete
    \/ ConsumeFail

\* the queue delivers what is pending, and every step of the handler that can
\* be taken is taken
SpecConsumer == InitConsumer /\ [][NextConsumer]_vars /\ WF_vars(NextConsumer)

\* the run of the first of two delivered messages has hung
FirstOfTwoHung ==
    /\ Len(aq.con.batch) = 2 /\ aq.con.i = 1
    /\ aq.con.pc = "workflow" /\ aq.con.wf = "hung"

\* the processing of the second message of the batch has begun
SecondBegun == Len(aq.con.batch) = 2 /\ aq.con.i >= 2

\* C40 as stated: the consumer does not serialize across the messages of a
\* delivered batch: a message whose workflow run is slow or stuck does not
\* delay its siblings, so the processing of the second message of a batch
\* begins although the run of the first has not finished.
C40_AsStated == FirstOfTwoHung ~> SecondBegun

====
